---- MODULE Spec2Model ----
(***************************************************************************)
(* Contract-boundary extractors and the MDX documentation validator of     *)
(* platform/03-intelligence/agents/shared.                                 *)
(*                                                                         *)
(* Text is modelled as a sequence of lexemes.  A lexeme is either one      *)
(* special character ("<", ">", "/", "=", ":", " ", "\n"), the delimiter   *)
(* "---", a word (a maximal run of \w characters, never two in a row), or  *)
(* "txt": a piece of quoted or plain text holding none of the special      *)
(* characters.  The regular expressions of the source are evaluated on     *)
(* these sequences the way Python's re evaluates them on the characters.   *)
(* A Rego policy has lexemes of its own: identifiers, the characters of    *)
(* RegoPunct and "str", a quoted string.                                   *)
(***************************************************************************)
EXTENDS Integers, Sequences, FiniteSets, TLC

VARIABLES
    call,       \* the entry point this run executes
    pc,         \* position inside the entry point
    file,       \* the file behind the path: existence, name, content
    content,    \* the text read from the file
    errors,     \* validate_mdx: errors accumulated so far
    warnings,   \* validate_mdx: warnings accumulated so far
    comp_errors,\* _validate_components: its own errors list
    unclosed,   \* _check_unclosed_tags: its own errors list
    tag_stack,  \* _check_unclosed_tags: stack of (tag_name, line_num)
    pos,        \* re.finditer: where the next search starts
    result,     \* the value returned (or the exception raised)
    data,       \* the parsed document (YAML value, syntax tree)
    todo,       \* ast.walk: its deque of nodes
    parameters, \* extractor: parameters list
    metadata    \* extractor: metadata dict (sequence of <<key, value>>)

vars == <<call, pc, file, content, errors, warnings, comp_errors, unclosed, tag_stack, pos,
          result, data, todo, parameters, metadata>>

--------------------------------------------------------------------------
(* Bounds of the model *)

MaxTags == 3

\* keys (lines) of a spec.forProvider block
MaxKeys == 3

\* declarations (lines) of a Python module
MaxDecls == 3

\* lines of a Markdown runbook
MaxLines == 4

\* tags of a document written to exercise the component checks
MaxComponents == 2

\* lines of a frontmatter block
MaxFields == 3

\* hyphen-separated words of a file name
MaxStemWords == 4

--------------------------------------------------------------------------
(* Sequence helpers *)

None == [t |-> "None"]

NoLine == 0

\* s[a..b] as Python slices it (empty when a > b)
Slice(s, a, b) == IF a > b THEN <<>> ELSE SubSeq(s, a, b)

Last(s) == s[Len(s)]

\* str.strip() on lexemes: leading and trailing white space removed
Strip(s) ==
    LET keep == {i \in 1..Len(s) : s[i] # " " /\ s[i] # "\n"}
    IN IF keep = {} THEN <<>>
       ELSE Slice(s, CHOOSE i \in keep : \A j \in keep : i <= j,
                     CHOOSE i \in keep : \A j \in keep : i >= j)

RECURSIVE Flatten(_)
Flatten(ss) == IF ss = <<>> THEN <<>> ELSE Head(ss) \o Flatten(Tail(ss))

\* str.count: occurrences of lexeme x in s
Count(s, x) == Cardinality({i \in 1..Len(s) : s[i] = x})

\* smallest index >= from holding x, or 0
IndexFrom(s, x, from) ==
    LET hits == {i \in from..Len(s) : s[i] = x}
    IN IF hits = {} THEN 0 ELSE CHOOSE i \in hits : \A j \in hits : i <= j

--------------------------------------------------------------------------
(* MDX documents: what a documentation file holds, and its text *)

Specials == {"<", ">", "/", "=", ":", " ", "\n", "---", "txt"}

\* \w+ : a word lexeme
IsWord(x) == x \notin Specials

Attr(n) == [name |-> n, sep |-> "=", gt |-> FALSE]

\* an attribute whose quoted value holds a '>' character, as in icon="->"
AttrGt(n) == [name |-> n, sep |-> "=", gt |-> TRUE]

OpenTag(n, as) == [kind |-> "open", name |-> n, attrs |-> as]

CloseTag(n) == [kind |-> "close", name |-> n, attrs |-> <<>>]

SelfTag(n, as) == [kind |-> "self", name |-> n, attrs |-> as]

TagShapes ==
    { OpenTag("Steps", <<>>), CloseTag("Steps"),
      OpenTag("Step", <<Attr("title")>>), OpenTag("Step", <<>>), CloseTag("Step"),
      SelfTag("ParamField", <<Attr("path"), Attr("type")>>),
      SelfTag("ParamField", <<Attr("type"), Attr("path")>>),
      OpenTag("Foo", <<>>),
      SelfTag("Step", <<AttrGt("icon"), Attr("title")>>),
      SelfTag("Step", <<Attr("title"), AttrGt("icon")>>) }

Bodies == UNION {[1..n -> TagShapes] : n \in 0..MaxTags}

RenderAttr(a) ==
    <<" ", a.name>> \o (IF a.sep = " =" THEN <<" ", "=">> ELSE <<"=">>)
                    \o (IF a.gt THEN <<"txt", ">", "txt">> ELSE <<"txt">>)

RenderAttrs(as) == Flatten([i \in 1..Len(as) |-> RenderAttr(as[i])])

RenderTag(t) ==
    CASE t.kind = "open"  -> <<"<", t.name>> \o RenderAttrs(t.attrs) \o <<">">>
      [] t.kind = "close" -> <<"<", "/", t.name, ">">>
      [] t.kind = "self"  -> <<"<", t.name>> \o RenderAttrs(t.attrs) \o <<" ", "/", ">">>

\* one tag per line
RenderBody(b) == Flatten([i \in 1..Len(b) |-> RenderTag(b[i]) \o <<"\n">>])

Field(k, v) == [key |-> k, value |-> v]

GoodFront ==
    [present |-> TRUE,
     fields |-> <<Field("title", "txt"), Field("category", "spec"),
                  Field("description", "txt")>>]

NoFront == [present |-> FALSE, fields |-> <<>>]

Fronts == {GoodFront, NoFront}

\* key: value, a key with nothing after the colon, or a line without a key
RenderField(f) ==
    (IF f.key = "" THEN <<>> ELSE <<f.key, ":">>)
    \o (IF f.value = "" THEN <<>>
        ELSE (IF f.key = "" THEN <<>> ELSE <<" ">>) \o <<f.value>>)
    \o <<"\n">>

RenderFront(fm) ==
    IF fm.present
    THEN <<"---", "\n">>
         \o Flatten([i \in 1..Len(fm.fields) |-> RenderField(fm.fields[i])])
         \o <<"---", "\n">>
    ELSE <<>>

\* file names: the stem as tokens ("lower": a run of [a-z]; "Upper": a run
\* holding an upper-case letter; "d2", "d4", "d8", "d10": runs of 2, 4, 8, 10
\* digits)
GoodStem == <<"lower", "-", "lower">>

FourWordStem == <<"lower", "-", "lower", "-", "lower", "-", "lower">>

Stems == {GoodStem, FourWordStem}

MdxFiles ==
    { [exists |-> FALSE, readable |-> FALSE, stem |-> GoodStem, suffix |-> ".mdx",
       front |-> NoFront, body |-> <<>>],
      [exists |-> TRUE, readable |-> FALSE, stem |-> GoodStem, suffix |-> ".mdx",
       front |-> NoFront, body |-> <<>>] }
    \cup
    [exists : {TRUE}, readable : {TRUE}, stem : Stems, suffix : {".mdx"},
     front : Fronts, body : Bodies]

\* f.read()
ReadText(f) == RenderFront(f.front) \o RenderBody(f.body)

--------------------------------------------------------------------------
(* mdx_validator.py *)

ValidationError(line, kind, arg) == [line |-> line, kind |-> kind, arg |-> arg]

ValidationResult(valid, errs, warns) ==
    [valid |-> valid, errors |-> errs, warnings |-> warns]

\* mutant: Callout is not on the whitelist
ComponentTypeShort == <<"ParamField", "Step", "Steps", "CodeBlock">>

ComponentType == <<"ParamField", "Step", "Steps", "CodeBlock", "Callout">>

\* content[:match.start()].count('\n') + 1
LineNum(text, start) == Count(Slice(text, 1, start - 1), "\n") + 1

NoMatch == [found |-> FALSE]

\* re.finditer of  <(/?)(\w+)([^>]*)/?>  (closing = TRUE) or of
\* <(\w+)([^>]*)/?>  (closing = FALSE): the leftmost match at or after p.
\* [^>]* is greedy and runs to the first '>', so the optional '/' of the
\* pattern never matches: a trailing slash ends up in the attributes group.
TagMatch(text, p, closing) ==
    LET NameAt(i) ==
            IF i + 1 <= Len(text) /\ IsWord(text[i + 1]) THEN i + 1
            ELSE IF closing /\ i + 2 <= Len(text) /\ text[i + 1] = "/"
                    /\ IsWord(text[i + 2]) THEN i + 2
            ELSE 0
        starts == {i \in p..Len(text) :
                     /\ text[i] = "<"
                     /\ NameAt(i) # 0
                     /\ IndexFrom(text, ">", NameAt(i) + 1) # 0}
    IN IF starts = {} THEN NoMatch
       ELSE LET i == CHOOSE k \in starts : \A j \in starts : k <= j
                n == NameAt(i)
                e == IndexFrom(text, ">", n + 1)
            IN [found |-> TRUE, start |-> i, closing |-> (n = i + 2),
                name |-> text[n], attributes |-> Slice(text, n + 1, e - 1),
                end |-> e]

\* words that end with another word: 'path=' is a substring of 'xpath='
WordSuffixes == {<<"xpath", "path">>, <<"subtitle", "title">>, <<"mimetype", "type">>}

WordEndsWith(w, f) == w = f \/ <<w, f>> \in WordSuffixes

\* 'path=' in attributes or 'path =' in attributes (substring tests)
HasAttribute(attributes, f) ==
    \E i \in 1..Len(attributes) :
        /\ WordEndsWith(attributes[i], f)
        /\ \/ i + 1 <= Len(attributes) /\ attributes[i + 1] = "="
           \/ /\ i + 2 <= Len(attributes)
              /\ attributes[i + 1] = " "
              /\ attributes[i + 2] = "="

\* the body of the for loop of _validate_components, for one match
ComponentCheck(text, m) ==
    LET line_num == LineNum(text, m.start)
        Missing(f) ==
            IF HasAttribute(m.attributes, f) THEN <<>>
            ELSE <<ValidationError(line_num, "requires attribute", <<m.name, f>>)>>
    IN IF \A i \in 1..Len(ComponentType) : ComponentType[i] # m.name
       THEN <<ValidationError(line_num, "Unknown component", <<m.name>> \o ComponentType)>>
       ELSE IF m.name = "ParamField" THEN Missing("path") \o Missing("type")
       ELSE IF m.name = "Step" THEN Missing("title")
       ELSE <<>>

\* the for loop of _validate_components over every match from p on
RECURSIVE ComponentErrors(_, _)
ComponentErrors(text, p) ==
    LET m == TagMatch(text, p, FALSE)
    IN IF ~m.found THEN <<>>
       ELSE ComponentCheck(text, m) \o ComponentErrors(text, m.end + 1)


\* digits a stem token holds
Digits(tok) ==
    CASE tok = "d2" -> 2 [] tok = "d4" -> 4 [] tok = "d8" -> 8 [] tok = "d10" -> 10
      [] OTHER -> 0

\* number of digits of the digit run that ends at i / that starts at i
RECURSIVE DigitsBack(_, _)
DigitsBack(stem, i) ==
    IF i < 1 \/ Digits(stem[i]) = 0 THEN 0
    ELSE Digits(stem[i]) + DigitsBack(stem, i - 1)

RECURSIVE DigitsFwd(_, _)
DigitsFwd(stem, i) ==
    IF i > Len(stem) \/ Digits(stem[i]) = 0 THEN 0
    ELSE Digits(stem[i]) + DigitsFwd(stem, i + 1)

\* re.match(r'^[a-z0-9]+(-[a-z0-9]+)*$', filename)
IsKebab(stem) ==
    /\ stem # <<>>
    /\ \A i \in 1..Len(stem) : stem[i] # "Upper"
    /\ stem[1] # "-" /\ Last(stem) # "-"
    /\ \A i \in 1..(Len(stem) - 1) : ~(stem[i] = "-" /\ stem[i + 1] = "-")

\* mutant: the hyphens are counted, not the words
WordCountHyphens(stem) == Count(stem, "-")

\* len(filename.split('-'))
WordCount(stem) == Count(stem, "-") + 1

\* re.search(r'\d{4}-\d{2}-\d{2}|\d{8}|\d{10}', filename)
HasTimestamp(stem) ==
    \/ \E i \in 1..Len(stem) : DigitsFwd(stem, i) >= 8
    \/ \E i, j \in 1..Len(stem) :
          /\ i < j /\ stem[i] = "-" /\ stem[j] = "-"
          /\ DigitsBack(stem, i - 1) >= 4
          /\ DigitsFwd(stem, i + 1) = 2 /\ DigitsBack(stem, j - 1) = 2
          /\ \A k \in (i + 1)..(j - 1) : Digits(stem[k]) > 0
          /\ DigitsFwd(stem, j + 1) >= 2

MaxWords == 3

_validate_filename(f) ==
    (IF f.suffix # ".mdx"
     THEN <<ValidationError(NoLine, "File must have .mdx extension", <<f.suffix>>)>>
     ELSE <<>>)
    \o (IF ~IsKebab(f.stem)
        THEN <<ValidationError(NoLine, "Filename must be kebab-case", <<>>)>>
        ELSE <<>>)
    \o (IF WordCount(f.stem) > MaxWords
        THEN <<ValidationError(NoLine, "Filename must have max 3 words", <<>>)>>
        ELSE <<>>)
    \o (IF HasTimestamp(f.stem)
        THEN <<ValidationError(NoLine, "Filename must not contain timestamps", <<>>)>>
        ELSE <<>>)

\* re.match(r'^---\n(.*?)\n---', content, re.DOTALL): the index of the "\n"
\* that ends group 1, or 0 when the content does not open with the block
FrontmatterEnd(text) ==
    IF Len(text) >= 2 /\ text[1] = "---" /\ text[2] = "\n"
    THEN LET ends == {j \in 3..(Len(text) - 1) : text[j] = "\n" /\ text[j + 1] = "---"}
         IN IF ends = {} THEN 0 ELSE CHOOSE j \in ends : \A k \in ends : j <= k
    ELSE 0

\* re.search(rf'^{field}:', frontmatter, re.MULTILINE)
HasField(fm, field) ==
    \E i \in 1..(Len(fm) - 1) :
        /\ fm[i] = field /\ fm[i + 1] = ":"
        /\ (i = 1 \/ fm[i - 1] = "\n")

\* re.search(r'^category:\s*(.+)$', frontmatter, re.MULTILINE), then
\* group(1).strip(): \s* also runs over line breaks, and gives characters back
\* until (.+) finds a character of a line to start at
CategoryValue(fm) ==
    LET IsWs(x) == x = " " \/ x = "\n"
        GroupStart(i) ==
            {p \in (i + 2)..Len(fm) :
                /\ \A k \in (i + 2)..(p - 1) : IsWs(fm[k])
                /\ fm[p] # "\n"
                /\ \A q \in (p + 1)..Len(fm) :
                      ~(/\ \A k \in (i + 2)..(q - 1) : IsWs(fm[k])
                        /\ fm[q] # "\n")}
        keys == {i \in 1..(Len(fm) - 1) :
                    /\ fm[i] = "category" /\ fm[i + 1] = ":"
                    /\ (i = 1 \/ fm[i - 1] = "\n")
                    /\ GroupStart(i) # {}}
    IN IF keys = {} THEN [found |-> FALSE, value |-> <<>>]
       ELSE LET i == CHOOSE k \in keys : \A j \in keys : k <= j
                p == CHOOSE q \in GroupStart(i) : TRUE
                nl == IndexFrom(fm, "\n", p)
                group == Slice(fm, p, IF nl = 0 THEN Len(fm) ELSE nl - 1)
            IN [found |-> TRUE,
                value |-> Strip(group)]

required_fields == <<"title", "category", "description">>

valid_categories == {<<"spec">>, <<"runbook">>, <<"adr">>}

_validate_frontmatter(text) ==
    LET e == FrontmatterEnd(text)
        frontmatter == Slice(text, 3, e - 1)
        MissingField(i) ==
            IF HasField(frontmatter, required_fields[i]) THEN <<>>
            ELSE <<ValidationError(NoLine, "Missing required frontmatter field",
                                   <<required_fields[i]>>)>>
        cat == CategoryValue(frontmatter)
    IN IF e = 0
       THEN <<ValidationError(1, "Missing frontmatter section", <<>>)>>
       ELSE Flatten([i \in 1..Len(required_fields) |-> MissingField(i)])
            \o (IF cat.found /\ cat.value \notin valid_categories
                THEN <<ValidationError(NoLine, "Invalid category", cat.value)>>
                ELSE <<>>)


--------------------------------------------------------------------------
(* validate_mdx as a state machine *)

\* what the other entry points' variables hold while validate_mdx runs
IdleExtractor ==
    /\ data = None /\ todo = <<>> /\ parameters = <<>> /\ metadata = <<>>

IdleValidator ==
    /\ errors = <<>> /\ warnings = <<>> /\ comp_errors = <<>> /\ unclosed = <<>>
    /\ tag_stack = <<>> /\ pos = 1

InitMdx ==
    /\ call = "validate_mdx"
    /\ pc = "start"
    /\ file \in MdxFiles
    /\ content = <<>>
    /\ result = None
    /\ IdleValidator
    /\ IdleExtractor

\* mutant: every result of a full run is reported valid
IsValidAlways(errs) == TRUE

\* valid=len(errors) == 0
IsValid(errs) == Len(errs) = 0

\* lines 68-73
FileNotFound ==
    /\ call = "validate_mdx" /\ pc = "start"
    /\ ~file.exists
    /\ result' = ValidationResult(FALSE,
                    <<ValidationError(NoLine, "File not found", <<>>)>>, <<>>)
    /\ pc' = "done"
    /\ UNCHANGED <<call, file, content, errors, warnings, comp_errors, unclosed,
                   tag_stack, pos, data, todo, parameters, metadata>>

\* mutant: a failed read reports its error and the checks still run
ReadFailsContinues ==
    /\ call = "validate_mdx" /\ pc = "start"
    /\ file.exists /\ ~file.readable
    /\ errors' = <<ValidationError(NoLine, "Failed to read file", <<>>)>>
    /\ pc' = "filename"
    /\ UNCHANGED <<call, file, content, warnings, comp_errors, unclosed, tag_stack,
                   pos, result, data, todo, parameters, metadata>>

\* lines 78-86, the read raising
ReadFails ==
    /\ call = "validate_mdx" /\ pc = "start"
    /\ file.exists /\ ~file.readable
    /\ result' = ValidationResult(FALSE,
                    <<ValidationError(NoLine, "Failed to read file", <<>>)>>, <<>>)
    /\ pc' = "done"
    /\ UNCHANGED <<call, file, content, errors, warnings, comp_errors, unclosed,
                   tag_stack, pos, data, todo, parameters, metadata>>

\* lines 75-80
ReadFile ==
    /\ call = "validate_mdx" /\ pc = "start"
    /\ file.exists /\ file.readable
    /\ errors' = <<>> /\ warnings' = <<>>
    /\ content' = ReadText(file)
    /\ pc' = "filename"
    /\ UNCHANGED <<call, file, comp_errors, unclosed, tag_stack, pos, result,
                   data, todo, parameters, metadata>>

\* lines 88-90
ValidateFilename ==
    /\ call = "validate_mdx" /\ pc = "filename"
    /\ errors' = errors \o _validate_filename(file)
    /\ pc' = "frontmatter"
    /\ UNCHANGED <<call, file, content, warnings, comp_errors, unclosed, tag_stack,
                   pos, result, data, todo, parameters, metadata>>

\* mutant: the frontmatter check is skipped once the filename check failed
FrontmatterUnlessErrors ==
    /\ call = "validate_mdx" /\ pc = "frontmatter"
    /\ errors' = IF errors = <<>> THEN _validate_frontmatter(content) ELSE errors
    /\ pc' = "components"
    /\ UNCHANGED <<call, file, content, warnings, comp_errors, unclosed, tag_stack,
                   pos, result, data, todo, parameters, metadata>>

\* lines 92-94
ValidateFrontmatter ==
    /\ call = "validate_mdx" /\ pc = "frontmatter"
    /\ errors' = errors \o _validate_frontmatter(content)
    /\ pc' = "components"
    /\ UNCHANGED <<call, file, content, warnings, comp_errors, unclosed, tag_stack,
                   pos, result, data, todo, parameters, metadata>>

\* _validate_components up to its call of _check_unclosed_tags (lines 186-226),
\* and the locals of _check_unclosed_tags as it starts (lines 234-237)
ValidateComponents ==
    /\ call = "validate_mdx" /\ pc = "components"
    /\ comp_errors' = ComponentErrors(content, 1)
    /\ unclosed' = <<>> /\ tag_stack' = <<>> /\ pos' = 1
    /\ pc' = "tags"
    /\ UNCHANGED <<call, file, content, errors, warnings, result, data, todo,
                   parameters, metadata>>

StackEntry(name, line) == [name |-> name, line |-> line]

\* is_self_closing = match.group(3).endswith('/')
IsSelfClosing(m) == m.attributes # <<>> /\ Last(m.attributes) = "/"

\* tag_stack.pop()
Pop(stack) == SubSeq(stack, 1, Len(stack) - 1)

\* mutant: a mismatched closing tag is reported and still pops
ClosingTagPops(stack, errs, name, line_num) ==
    IF stack = <<>> \/ Last(stack).name # name
    THEN [stack |-> IF stack = <<>> THEN stack ELSE Pop(stack),
          errors |-> Append(errs, ValidationError(line_num,
                        "Closing tag without matching opening tag", <<name>>))]
    ELSE [stack |-> Pop(stack), errors |-> errs]

\* lines 248-255: what a closing tag does to (tag_stack, errors)
ClosingTag(stack, errs, name, line_num) ==
    IF stack = <<>> \/ Last(stack).name # name
    THEN [stack |-> stack,
          errors |-> Append(errs, ValidationError(line_num,
                        "Closing tag without matching opening tag", <<name>>))]
    ELSE [stack |-> Pop(stack), errors |-> errs]

\* mutant: the scan skips a tag whose name is not whitelisted
TagStepWhitelisted ==
    /\ call = "validate_mdx" /\ pc = "tags"
    /\ LET m == TagMatch(content, pos, TRUE)
       IN /\ m.found
          /\ LET line_num == LineNum(content, m.start)
                 closed == ClosingTag(tag_stack, unclosed, m.name, line_num)
             IN IF \A i \in 1..Len(ComponentType) : ComponentType[i] # m.name
                THEN UNCHANGED <<tag_stack, unclosed>>
                ELSE IF m.closing
                THEN tag_stack' = closed.stack /\ unclosed' = closed.errors
                ELSE IF ~IsSelfClosing(m)
                THEN /\ tag_stack' = Append(tag_stack, StackEntry(m.name, line_num))
                     /\ unclosed' = unclosed
                ELSE UNCHANGED <<tag_stack, unclosed>>
          /\ pos' = m.end + 1
    /\ UNCHANGED <<call, pc, file, content, errors, warnings, comp_errors, result,
                   data, todo, parameters, metadata>>

\* one iteration of the for loop of _check_unclosed_tags (lines 242-257)
TagStep ==
    /\ call = "validate_mdx" /\ pc = "tags"
    /\ LET m == TagMatch(content, pos, TRUE)
       IN /\ m.found
          /\ LET line_num == LineNum(content, m.start)
                 closed == ClosingTag(tag_stack, unclosed, m.name, line_num)
             IN IF m.closing
                THEN tag_stack' = closed.stack /\ unclosed' = closed.errors
                ELSE IF ~IsSelfClosing(m)
                THEN /\ tag_stack' = Append(tag_stack, StackEntry(m.name, line_num))
                     /\ unclosed' = unclosed
                ELSE UNCHANGED <<tag_stack, unclosed>>
          /\ pos' = m.end + 1
    /\ UNCHANGED <<call, pc, file, content, errors, warnings, comp_errors, result,
                   data, todo, parameters, metadata>>

\* mutant: only the innermost open tag is reported
UnclosedTopOnly(stack) ==
    IF stack = <<>> THEN <<>>
    ELSE <<ValidationError(Last(stack).line, "Unclosed tag", <<Last(stack).name>>)>>

\* lines 260-264: one error per entry left on the stack, bottom first
UnclosedErrors(stack) ==
    [i \in 1..Len(stack) |->
        ValidationError(stack[i].line, "Unclosed tag", <<stack[i].name>>)]

\* the end of the scan: the report loop (lines 259-266), the return into
\* _validate_components (lines 226-229) and into validate_mdx (lines 97-98)
ReportUnclosed ==
    /\ call = "validate_mdx" /\ pc = "tags"
    /\ ~TagMatch(content, pos, TRUE).found
    /\ unclosed' = unclosed \o UnclosedErrors(tag_stack)
    /\ comp_errors' = comp_errors \o unclosed'
    /\ errors' = errors \o comp_errors'
    /\ pc' = "return"
    /\ UNCHANGED <<call, file, content, warnings, tag_stack, pos, result, data,
                   todo, parameters, metadata>>

\* lines 100-104
ReturnResult ==
    /\ call = "validate_mdx" /\ pc = "return"
    /\ result' = ValidationResult(IsValid(errors), errors, warnings)
    /\ pc' = "done"
    /\ UNCHANGED <<call, file, content, errors, warnings, comp_errors, unclosed,
                   tag_stack, pos, data, todo, parameters, metadata>>

NextMdx ==
    \/ FileNotFound
    \/ ReadFails
    \/ ReadFile
    \/ ValidateFilename
    \/ ValidateFrontmatter
    \/ ValidateComponents
    \/ TagStep
    \/ ReportUnclosed
    \/ ReturnResult

SpecMdx == InitMdx /\ [][NextMdx]_vars


--------------------------------------------------------------------------
(* Properties of validate_mdx *)

\* the line of the k-th tag of the body: the frontmatter's lines come first
FrontLines(f) == IF f.front.present THEN Len(f.front.fields) + 2 ELSE 0

TagLine(f, k) == FrontLines(f) + k

Returned == call = "validate_mdx" /\ pc = "done"

FullRun == Returned /\ file.exists /\ file.readable

ErrorsOfKind(errs, kind) == SelectSeq(errs, LAMBDA e : e.kind = kind)

\* C1: in the tag-balance scan a closing tag that does not match the top of
\* the stack (or meets an empty stack) appends one error at its own line and
\* leaves the stack as it is; a closing tag that matches the top pops exactly
\* that entry and appends no error.
C1_ClosingTagStep ==
    [][ (call = "validate_mdx" /\ pc = "tags" /\ TagMatch(content, pos, TRUE).found
         /\ TagMatch(content, pos, TRUE).closing)
        => LET m == TagMatch(content, pos, TRUE)
               line == Count(Slice(content, 1, m.start - 1), "\n") + 1
           IN IF tag_stack # <<>> /\ tag_stack[Len(tag_stack)].name = m.name
              THEN /\ tag_stack' = SubSeq(tag_stack, 1, Len(tag_stack) - 1)
                   /\ unclosed' = unclosed
              ELSE /\ tag_stack' = tag_stack
                   /\ Len(unclosed') = Len(unclosed) + 1
                   /\ SubSeq(unclosed', 1, Len(unclosed)) = unclosed
                   /\ unclosed'[Len(unclosed')] =
                        [line |-> line,
                         kind |-> "Closing tag without matching opening tag",
                         arg |-> <<m.name>>] ]_vars

\* C1 witness: <Steps> </Step> </Steps> was scanned: the mismatched </Step>
\* (line 7) was reported and popped nothing, then </Steps> popped <Steps>.
C1_Witness ==
    /\ call = "validate_mdx" /\ pc = "return"
    /\ file.front = GoodFront
    /\ file.body = <<OpenTag("Steps", <<>>), CloseTag("Step"), CloseTag("Steps")>>
    /\ tag_stack = <<>>
    /\ unclosed = <<[line |-> 7, kind |-> "Closing tag without matching opening tag",
                     arg |-> <<"Step">>]>>

\* C2: after the scan every entry left on the stack has exactly one
\* "Unclosed tag" error with its name and opening line, a tag popped by its
\* closing tag has none, and an untitled <Step> inside a never closed <Steps>
\* yields both the missing-title error and the unclosed error for Steps.
C2_UnclosedReported ==
    FullRun =>
        LET reported == ErrorsOfKind(result.errors, "Unclosed tag")
        IN /\ Len(reported) = Len(tag_stack)
           /\ \A i \in 1..Len(tag_stack) :
                /\ reported[i].line = tag_stack[i].line
                /\ reported[i].arg = <<tag_stack[i].name>>
                /\ file.body[tag_stack[i].line - FrontLines(file)].name
                      = tag_stack[i].name
                /\ file.body[tag_stack[i].line - FrontLines(file)].kind # "close"
           /\ \A k \in 1..(Len(file.body) - 1) :
                (file.body[k].kind = "open"
                 /\ file.body[k + 1] = CloseTag(file.body[k].name))
                => \A i \in 1..Len(reported) : reported[i].line # TagLine(file, k)
           /\ \A k, j \in 1..Len(file.body) :
                (/\ k < j
                 /\ file.body[k] = OpenTag("Steps", <<>>)
                 /\ file.body[j] = OpenTag("Step", <<>>)
                 /\ \A n \in (k + 1)..Len(file.body) : file.body[n] # CloseTag("Steps"))
                => /\ \E i \in 1..Len(result.errors) :
                        result.errors[i] = [line |-> TagLine(file, j),
                                            kind |-> "requires attribute",
                                            arg |-> <<"Step", "title">>]
                   /\ Cardinality({i \in 1..Len(result.errors) :
                        result.errors[i] = [line |-> TagLine(file, k),
                                            kind |-> "Unclosed tag",
                                            arg |-> <<"Steps">>]}) = 1

\* C2 witness: <Steps> <Step> </Step> returned: Step was popped, Steps is
\* reported unclosed at its line 6, the missing title at line 7.
C2_Witness ==
    /\ FullRun
    /\ file.front = GoodFront /\ file.stem = GoodStem
    /\ file.body = <<OpenTag("Steps", <<>>), OpenTag("Step", <<>>), CloseTag("Step")>>
    /\ result.errors = <<[line |-> 7, kind |-> "requires attribute",
                          arg |-> <<"Step", "title">>],
                         [line |-> 6, kind |-> "Unclosed tag", arg |-> <<"Steps">>]>>

\* C3: every ValidationResult returned, the short-circuit ones included, has
\* valid true exactly when its errors list is empty, and no warnings.
C3_ValidIffNoErrors ==
    Returned => /\ result.valid <=> (result.errors = <<>>)
                /\ result.warnings = <<>>

\* C3 witness: a full run over a non-empty body returned a valid result.
C3_Witness ==
    /\ FullRun /\ file.body # <<>>
    /\ result.valid /\ result.errors = <<>>


\* what the document itself says: every component is whitelisted
OnlyWhitelisted(body) ==
    \A k \in 1..Len(body) :
        \E i \in 1..Len(ComponentType) : ComponentType[i] = body[k].name

\* what the document itself says: the tag carries an attribute named f
Carries(tag, f) == \E i \in 1..Len(tag.attrs) : tag.attrs[i].name = f

RequiredPresent(body) ==
    \A k \in 1..Len(body) :
        body[k].kind # "close" =>
            /\ body[k].name = "ParamField"
                 => Carries(body[k], "path") /\ Carries(body[k], "type")
            /\ body[k].name = "Step" => Carries(body[k], "title")

\* what the document itself says: opening tags are closed in nested order
RECURSIVE Nested(_, _)
Nested(body, open) ==
    IF body = <<>> THEN open = <<>>
    ELSE LET t == Head(body)
         IN CASE t.kind = "self"  -> Nested(Tail(body), open)
              [] t.kind = "open"  -> Nested(Tail(body), Append(open, t.name))
              [] t.kind = "close" ->
                    /\ open # <<>> /\ Last(open) = t.name
                    /\ Nested(Tail(body), SubSeq(open, 1, Len(open) - 1))

\* C10: a file with a valid name and valid frontmatter whose body holds only
\* whitelisted components, each with its required attributes in any order,
\* all opening tags closed in nested order or self-closing, is returned valid
\* with an empty errors list.
C10_WellFormedIsValid ==
    (/\ FullRun
     /\ file.stem = GoodStem /\ file.suffix = ".mdx" /\ file.front = GoodFront
     /\ OnlyWhitelisted(file.body)
     /\ RequiredPresent(file.body)
     /\ Nested(file.body, <<>>))
    => result.valid /\ result.errors = <<>>


--------------------------------------------------------------------------
(* contract_extractor.py: the data model *)

\* an Optional value: <<>> is None, <<x>> is x
Absent == <<>>

Some(x) == <<x>>

Parameter(name, type, required, default, description) ==
    [name |-> name, type |-> type, required |-> required, default |-> default,
     description |-> description]

ContractBoundary(file_type, params, meta) ==
    [kind |-> "ContractBoundary", file_type |-> file_type, parameters |-> params,
     metadata |-> meta]

\* an exception leaving the call
Raised(exception, message) == [kind |-> exception, message |-> message]

\* path.suffix.lower()
Lower(suffix) ==
    CASE suffix = ".YAML" -> ".yaml"
      [] suffix = ".YML" -> ".yml"
      [] suffix = ".PY" -> ".py"
      [] suffix = ".MD" -> ".md"
      [] suffix = ".Yml" -> ".yml"
      [] suffix = ".REGO" -> ".rego"
      [] suffix = ".Markdown" -> ".markdown"
      [] suffix = ".TXT" -> ".txt"
      [] OTHER -> suffix

\* mutant: the suffix is compared as it is spelled
DetectCaseSensitive(suffix) ==
    IF suffix \in {".yaml", ".yml"} THEN "yaml"
    ELSE IF suffix = ".py" THEN "python"
    ELSE IF suffix = ".rego" THEN "rego"
    ELSE IF suffix \in {".md", ".markdown"} THEN "markdown"
    ELSE "unknown"

_detect_file_type(suffix) ==
    LET sfx == Lower(suffix)
    IN IF sfx \in {".yaml", ".yml"} THEN "yaml"
       ELSE IF sfx = ".py" THEN "python"
       ELSE IF sfx = ".rego" THEN "rego"
       ELSE IF sfx \in {".md", ".markdown"} THEN "markdown"
       ELSE "unknown"

--------------------------------------------------------------------------
(* YAML documents: values as yaml.safe_load builds them *)

\* t: "bool", "int", "float", "str", "null", "list", "dict";  v: the text of
\* a scalar;  items: the elements of a list, or the <<key, value>> entries of
\* a dict in insertion order
Value(t, v, items) == [t |-> t, v |-> v, items |-> items]

Scalar(t, v) == Value(t, v, <<>>)

Dict(entries) == Value("dict", "", entries)

List(items) == Value("list", "", items)

Null == Scalar("null", "")

\* a block of "key: value" lines, each with its indentation depth; a line of
\* kind "dict" opens a nested mapping that the deeper lines after it fill
Line(key, kind, depth) == [key |-> key, kind |-> kind, depth |-> depth]

Keys == {"tags", "status"}

LeafKinds == {"bool", "int", "float", "str", "null", "list"}

Kinds == LeafKinds \cup {"dict"}

\* the line that opens the mapping line number n of ls would belong to, were
\* it at depth d (0: the block itself)
ParentOf(ls, n, d) ==
    LET ups == {j \in 1..(n - 1) : ls[j].depth = d - 1}
    IN IF d = 0 \/ ups = {} THEN 0 ELSE CHOOSE j \in ups : \A k \in ups : j >= k

\* the lines of the mapping opened by line i (0: the block), in order
ChildrenOf(ls, i) ==
    LET d == IF i = 0 THEN 0 ELSE ls[i].depth + 1
    IN {j \in (i + 1)..Len(ls) :
          /\ ls[j].depth = d
          /\ \A k \in (i + 1)..j : ls[k].depth >= d}

\* a line may follow ls when it nests under an open mapping and repeats no key
CanFollow(ls, ln) ==
    LET n == Len(ls) + 1
        par == ParentOf(ls, n, ln.depth)
    IN /\ ln.depth = 0 \/ (ls # <<>> /\ ln.depth <= Last(ls).depth + 1)
       /\ ln.depth > 0 => (par # 0 /\ ls[par].kind = "dict")
       /\ \A j \in ChildrenOf(ls, par) : ls[j].key # ln.key

RECURSIVE Blocks(_)
Blocks(n) ==
    IF n = 0 THEN {<<>>}
    ELSE LET shorter == Blocks(n - 1)
         IN shorter \cup
            {Append(ls, ln) :
                <<ls, ln>> \in {x \in shorter \X [key : Keys, kind : Kinds, depth : 0..(n - 1)] :
                                  Len(x[1]) = n - 1 /\ CanFollow(x[1], x[2])}}

SetToSeq(S) ==
    LET RECURSIVE Build(_)
        Build(rest) ==
            IF rest = {} THEN <<>>
            ELSE LET i == CHOOSE k \in rest : \A j \in rest : k <= j
                 IN <<i>> \o Build(rest \ {i})
    IN Build(S)

\* the value of a leaf line
LeafValue(kind) ==
    CASE kind = "bool"  -> Scalar("bool", "true")
      [] kind = "int"   -> Scalar("int", "3")
      [] kind = "float" -> Scalar("float", "0.5")
      [] kind = "str"   -> Scalar("str", "production")
      [] kind = "null"  -> Null
      [] kind = "list"  -> List(<<Dict(<<<<"tags", Scalar("str", "production")>>>>)>>)

\* yaml.safe_load of the block: the mapping line i opens (0: the whole block)
RECURSIVE LoadMapping(_, _)
LoadMapping(ls, i) ==
    LET kids == SetToSeq(ChildrenOf(ls, i))
    IN Dict([n \in 1..Len(kids) |->
                <<ls[kids[n]].key,
                  IF ls[kids[n]].kind = "dict" THEN LoadMapping(ls, kids[n])
                  ELSE LeafValue(ls[kids[n]].kind)>>])


\* a manifest: the root mapping with its optional metadata, spec and status
Manifest(meta, spec, status) ==
    Dict((IF meta = Absent THEN <<>> ELSE <<<<"metadata", meta[1]>>>>)
         \o (IF spec = Absent THEN <<>> ELSE <<<<"spec", spec[1]>>>>)
         \o (IF status = Absent THEN <<>> ELSE <<<<"status", status[1]>>>>))

SpecBlock(fp, ctr) ==
    Dict((IF fp = Absent THEN <<>> ELSE <<<<"forProvider", fp[1]>>>>)
         \o (IF ctr = Absent THEN <<>> ELSE <<<<"compositeTypeRef", ctr[1]>>>>))

GoodMetadata ==
    Dict(<<<<"name", Scalar("str", "test-service")>>,
           <<"uid", Scalar("str", "production")>>,
           <<"labels", Dict(<<<<"tags", Scalar("str", "production")>>>>)>>>>)

\* metadata values that are no mapping
BadMetadata ==
    { Null, Scalar("int", "3"), Scalar("str", "production"), Scalar("str", "name"),
      List(<<Scalar("str", "production")>>), List(<<Scalar("str", "name")>>) }

StatusBlock ==
    Dict(<<<<"condition", Scalar("str", "ready")>>, <<"phase", Scalar("str", "running")>>>>)

TypeRef == Dict(<<<<"kind", Scalar("str", "XDatabase")>>>>)

\* forProvider values that are no mapping
BadForProvider ==
    {Null, Scalar("int", "3"), Scalar("str", "production"), List(<<Scalar("str", "name")>>)}

YamlFile(exists, suffix, loads, doc, block) ==
    [exists |-> exists, suffix |-> suffix, loads |-> loads, doc |-> doc,
     block |-> block]

\* block: <<ls>> when spec.forProvider is the mapping of the lines ls
YamlFiles ==
    { YamlFile(FALSE, ".yaml", FALSE, Null, Absent),
      YamlFile(TRUE, ".txt", TRUE, Null, Absent),
      YamlFile(TRUE, ".yaml", FALSE, Null, Absent),
      YamlFile(TRUE, ".yaml", TRUE, Null, Absent),
      YamlFile(TRUE, ".YML", TRUE, List(<<Scalar("str", "name")>>), Absent),
      YamlFile(TRUE, ".yml", TRUE, Scalar("str", "production"), Absent),
      YamlFile(TRUE, ".yaml", TRUE, Manifest(Absent, Absent, Some(StatusBlock)), Absent),
      YamlFile(TRUE, ".yaml", TRUE,
               Manifest(Some(GoodMetadata), Some(Scalar("str", "production")), Absent),
               Absent),
      YamlFile(TRUE, ".yaml", TRUE,
               Manifest(Some(GoodMetadata), Some(SpecBlock(Absent, Some(TypeRef))), Absent),
               Absent) }
    \cup
    { YamlFile(TRUE, ".yaml", TRUE,
               Manifest(Some(md), Some(SpecBlock(Some(LoadMapping(<<>>, 0)), Absent)), Absent),
               Some(<<>>)) : md \in BadMetadata }
    \cup
    { YamlFile(TRUE, ".yaml", TRUE,
               Manifest(Some(GoodMetadata), Some(SpecBlock(Some(fp), Some(TypeRef))), Absent),
               Absent) : fp \in BadForProvider }
    \cup
    { YamlFile(TRUE, ".yaml", TRUE,
               Manifest(Absent, Some(SpecBlock(Some(LoadMapping(ls, 0)), Absent)), Absent),
               Some(ls)) : ls \in Blocks(MaxKeys) }
    \cup
    { YamlFile(TRUE, ".yaml", TRUE,
               Manifest(Some(GoodMetadata),
                        Some(SpecBlock(Some(LoadMapping(ls, 0)), Some(TypeRef))),
                        Some(StatusBlock)),
               Some(ls)) : ls \in Blocks(MaxKeys) }

--------------------------------------------------------------------------
(* yaml_extractor.py *)

\* isinstance(value, cls): bool is a subclass of int
IsInstance(value, cls) ==
    CASE cls = "bool"  -> value.t = "bool"
      [] cls = "int"   -> value.t \in {"int", "bool"}
      [] cls = "float" -> value.t = "float"
      [] cls = "str"   -> value.t = "str"
      [] cls = "list"  -> value.t = "list"
      [] cls = "dict"  -> value.t = "dict"

\* key in d, for a dict
HasKey(d, key) == \E i \in 1..Len(d.items) : d.items[i][1] = key

\* d[key], for a dict that has the key
Get(d, key) == d.items[CHOOSE i \in 1..Len(d.items) : d.items[i][1] = key][2]

\* d[key] = value
Put(entries, key, value) ==
    IF \E i \in 1..Len(entries) : entries[i][1] = key
    THEN [i \in 1..Len(entries) |->
            IF entries[i][1] = key THEN <<key, value>> ELSE entries[i]]
    ELSE Append(entries, <<key, value>>)

\* whether `key in x` raises TypeError (x is not iterable)
InRaises(x) == x.t \notin {"dict", "str", "list"}

\* key in x: a key of a dict, a substring of a str, an element of a list
In(key, x) ==
    CASE x.t = "dict" -> HasKey(x, key)
      [] x.t = "str"  -> x.v = key
      [] x.t = "list" -> \E i \in 1..Len(x.items) : x.items[i] = Scalar("str", key)
      [] OTHER -> FALSE

metadata_keys == <<"name", "namespace", "labels", "annotations">>

\* _extract_metadata: the dict built, or the exception that leaves it
\* (x[key] with a str key raises TypeError on a str and on a list)
_extract_metadata(metadata_dict) ==
    LET RECURSIVE Loop(_, _)
        Loop(i, acc) ==
            IF i > Len(metadata_keys) THEN [raised |-> Absent, value |-> acc]
            ELSE IF InRaises(metadata_dict)
            THEN [raised |-> Some("TypeError"), value |-> <<>>]
            ELSE IF ~In(metadata_keys[i], metadata_dict) THEN Loop(i + 1, acc)
            ELSE IF metadata_dict.t # "dict"
            THEN [raised |-> Some("TypeError"), value |-> <<>>]
            ELSE Loop(i + 1, Put(acc, metadata_keys[i],
                                  Get(metadata_dict, metadata_keys[i])))
    IN Loop(1, <<>>)

\* mutant: int is tested before bool, so a boolean is typed integer
InferTypeIntFirst(value) ==
    IF IsInstance(value, "int") THEN "integer"
    ELSE IF IsInstance(value, "bool") THEN "boolean"
    ELSE IF IsInstance(value, "float") THEN "number"
    ELSE IF IsInstance(value, "str") THEN "string"
    ELSE IF IsInstance(value, "list") THEN "array"
    ELSE IF IsInstance(value, "dict") THEN "object"
    ELSE "unknown"

_infer_type(value) ==
    IF IsInstance(value, "bool") THEN "boolean"
    ELSE IF IsInstance(value, "int") THEN "integer"
    ELSE IF IsInstance(value, "float") THEN "number"
    ELSE IF IsInstance(value, "str") THEN "string"
    ELSE IF IsInstance(value, "list") THEN "array"
    ELSE IF IsInstance(value, "dict") THEN "object"
    ELSE "unknown"

\* value if not isinstance(value, (dict, list)) else None; a null is None
DefaultOf(value) ==
    IF IsInstance(value, "dict") \/ IsInstance(value, "list") \/ value = Null
    THEN Absent ELSE Some(value)

\* _extract_for_provider on a dict; a name is its keys with "." between them
RECURSIVE _extract_for_provider(_, _)
_extract_for_provider(for_provider, prefix) ==
    LET RECURSIVE Loop(_)
        Loop(i) ==
            IF i > Len(for_provider.items) THEN <<>>
            ELSE LET key == for_provider.items[i][1]
                     value == for_provider.items[i][2]
                     param_name == prefix \o <<key>>
                     param == Parameter(param_name, Some(_infer_type(value)), FALSE,
                                        DefaultOf(value), Absent)
                 IN <<param>>
                    \o (IF IsInstance(value, "dict")
                        THEN _extract_for_provider(value, param_name \o <<".">>)
                        ELSE <<>>)
                    \o Loop(i + 1)
    IN Loop(1)


\* for_provider.items() raises AttributeError on anything but a dict
CallExtractForProvider(for_provider) ==
    IF IsInstance(for_provider, "dict")
    THEN [raised |-> Absent, value |-> _extract_for_provider(for_provider, <<>>)]
    ELSE [raised |-> Some("AttributeError"), value |-> <<>>]

\* mutant: the whole manifest is flattened, not spec.forProvider alone
WholeManifest(doc) == doc

\* data['spec']['forProvider'] (line 60)
ForProviderOf(doc) == Get(Get(doc, "spec"), "forProvider")

--------------------------------------------------------------------------
(* extract_contract_boundary as a state machine: the dispatcher *)

Extracting == call = "extract_contract_boundary"

InitExtract(files) ==
    /\ call = "extract_contract_boundary"
    /\ pc = "start"
    /\ file \in files
    /\ content = <<>>
    /\ result = None
    /\ IdleValidator
    /\ IdleExtractor

\* contract_extractor.py lines 67-68
NotFound ==
    /\ Extracting /\ pc = "start"
    /\ ~file.exists
    /\ result' = Raised("ContractExtractionError", "File not found")
    /\ pc' = "done"
    /\ UNCHANGED <<call, file, content, errors, warnings, comp_errors, unclosed,
                   tag_stack, pos, data, todo, parameters, metadata>>

\* contract_extractor.py lines 71-74
Unsupported ==
    /\ Extracting /\ pc = "start"
    /\ file.exists
    /\ _detect_file_type(file.suffix) = "unknown"
    /\ result' = Raised("ContractExtractionError", "Unsupported file type")
    /\ pc' = "done"
    /\ UNCHANGED <<call, file, content, errors, warnings, comp_errors, unclosed,
                   tag_stack, pos, data, todo, parameters, metadata>>

\* the call reached YAMLContractExtractor.extract (lines 77-79, 90)
AtYaml ==
    /\ Extracting /\ pc = "start"
    /\ file.exists
    /\ _detect_file_type(file.suffix) = "yaml"

--------------------------------------------------------------------------
(* YAMLContractExtractor.extract as a state machine *)

\* lines 41-45
YamlLoadFails ==
    /\ AtYaml
    /\ ~file.loads
    /\ result' = Raised("ContractExtractionError", "Failed to parse YAML")
    /\ pc' = "done"
    /\ UNCHANGED <<call, file, content, errors, warnings, comp_errors, unclosed,
                   tag_stack, pos, data, todo, parameters, metadata>>

\* lines 47-48
YamlNotDict ==
    /\ AtYaml
    /\ file.loads /\ ~IsInstance(file.doc, "dict")
    /\ result' = Raised("ContractExtractionError", "YAML file must contain a dictionary")
    /\ pc' = "done"
    /\ UNCHANGED <<call, file, content, errors, warnings, comp_errors, unclosed,
                   tag_stack, pos, data, todo, parameters, metadata>>

\* lines 41-51
YamlLoaded ==
    /\ AtYaml
    /\ file.loads /\ IsInstance(file.doc, "dict")
    /\ data' = file.doc
    /\ parameters' = <<>> /\ metadata' = <<>>
    /\ pc' = "yaml_metadata"
    /\ UNCHANGED <<call, file, content, errors, warnings, comp_errors, unclosed,
                   tag_stack, pos, result, todo>>

\* lines 54-55
YamlMetadata ==
    /\ Extracting /\ pc = "yaml_metadata"
    /\ IF HasKey(data, "metadata")
       THEN LET r == _extract_metadata(Get(data, "metadata"))
            IN IF r.raised # Absent
               THEN /\ result' = Raised(r.raised[1], "")
                    /\ pc' = "done"
                    /\ UNCHANGED metadata
               ELSE /\ metadata' = r.value
                    /\ pc' = "yaml_spec"
                    /\ UNCHANGED result
       ELSE /\ pc' = "yaml_spec"
            /\ UNCHANGED <<metadata, result>>
    /\ UNCHANGED <<call, file, content, errors, warnings, comp_errors, unclosed,
                   tag_stack, pos, data, todo, parameters>>

\* lines 58-65
YamlSpec ==
    /\ Extracting /\ pc = "yaml_spec"
    /\ IF HasKey(data, "spec") /\ IsInstance(Get(data, "spec"), "dict")
       THEN LET spec == Get(data, "spec")
                r == IF HasKey(spec, "forProvider")
                     THEN CallExtractForProvider(ForProviderOf(data))
                     ELSE [raised |-> Absent, value |-> <<>>]
            IN IF r.raised # Absent
               THEN /\ result' = Raised(r.raised[1], "")
                    /\ pc' = "done"
                    /\ UNCHANGED <<parameters, metadata>>
               ELSE /\ parameters' = parameters \o r.value
                    /\ metadata' = IF HasKey(spec, "compositeTypeRef")
                                   THEN Put(metadata, "compositeTypeRef",
                                            Get(spec, "compositeTypeRef"))
                                   ELSE metadata
                    /\ pc' = "yaml_return"
                    /\ UNCHANGED result
       ELSE /\ pc' = "yaml_return"
            /\ UNCHANGED <<parameters, metadata, result>>
    /\ UNCHANGED <<call, file, content, errors, warnings, comp_errors, unclosed,
                   tag_stack, pos, data, todo>>

\* lines 67-72
YamlReturn ==
    /\ Extracting /\ pc = "yaml_return"
    /\ result' = ContractBoundary("yaml", parameters, metadata)
    /\ pc' = "done"
    /\ UNCHANGED <<call, file, content, errors, warnings, comp_errors, unclosed,
                   tag_stack, pos, data, todo, parameters, metadata>>

InitYaml == InitExtract(YamlFiles)

NextYaml ==
    \/ NotFound
    \/ Unsupported
    \/ YamlLoadFails
    \/ YamlNotDict
    \/ YamlLoaded
    \/ YamlMetadata
    \/ YamlSpec
    \/ YamlReturn

SpecYaml == InitYaml /\ [][NextYaml]_vars

--------------------------------------------------------------------------
(* Properties of the YAML extractor *)

Finished == Extracting /\ pc = "done"

Succeeded == Finished /\ result.kind = "ContractBoundary"

\* C4: every call of extract_contract_boundary returns a ContractBoundary or
\* fails with ContractExtractionError and with no other kind of error, also
\* for manifests whose metadata or spec.forProvider value is no mapping.
C4_OnlyTypedError ==
    Finished => result.kind \in {"ContractBoundary", "ContractExtractionError"}

RootKeys(f) ==
    IF f.block = Absent THEN {}
    ELSE {f.block[1][i].key : i \in {j \in 1..Len(f.block[1]) : f.block[1][j].depth = 0}}

RECURSIVE PathName(_, _)
PathName(ls, i) ==
    LET par == ParentOf(ls, i, ls[i].depth)
    IN (IF par = 0 THEN <<>> ELSE PathName(ls, par) \o <<".">>) \o <<ls[i].key>>

\* the parameter a line of the block stands for: typed by its value, the
\* value as default for a scalar leaf, never required
LineParameter(ls, i) ==
    LET kind == ls[i].kind
    IN [name |-> PathName(ls, i),
        type |-> Some(CASE kind = "bool" -> "boolean"
                        [] kind = "int" -> "integer"
                        [] kind = "float" -> "number"
                        [] kind = "str" -> "string"
                        [] kind = "list" -> "array"
                        [] kind = "dict" -> "object"
                        [] kind = "null" -> "unknown"),
        required |-> FALSE,
        default |-> IF kind \in {"bool", "int", "float", "str"}
                    THEN Some(LeafValue(kind)) ELSE Absent,
        description |-> Absent]

\* C7: the parameters produced from spec.forProvider are its pre-order
\* flatten: one parameter per key at every depth reachable through mappings,
\* in document order (a key before its children, and before later siblings),
\* named by the dot-joined key path, typed by the value (a boolean is
\* boolean), default only for scalar leaves, required false; mappings inside
\* lists are not descended into.
C7_PreorderFlatten ==
    (Succeeded /\ file.block # Absent)
    => result.parameters =
          [i \in 1..Len(file.block[1]) |-> LineParameter(file.block[1], i)]

\* C7 witness: tags (a mapping) with child tags.status (a boolean), then the
\* sibling status (a list holding a mapping): three parameters in that order.
C7_Witness ==
    /\ Succeeded
    /\ file.block = Some(<<Line("tags", "dict", 0), Line("status", "bool", 1),
                           Line("status", "list", 0)>>)
    /\ Len(result.parameters) = 3
    /\ result.parameters[1].name = <<"tags">>
    /\ result.parameters[1].type = <<"object">>
    /\ result.parameters[2].name = <<"tags", ".", "status">>
    /\ result.parameters[2].type = <<"boolean">>
    /\ result.parameters[2].default = <<Scalar("bool", "true")>>
    /\ result.parameters[3].name = <<"status">>
    /\ result.parameters[3].type = <<"array">>
    /\ result.parameters[3].default = <<>>


--------------------------------------------------------------------------
(* Python modules: declaration lines, nested by indentation *)

\* an identifier is its characters grouped: <<"_", "helper">> is _helper
Arg(arg, annotation) == [arg |-> arg, annotation |-> annotation]

Decl(kind, name, args, returns, annotation) ==
    [kind |-> kind, name |-> name, args |-> args, returns |-> returns,
     annotation |-> annotation]

\* def run(self, value: int): ...
DefRun ==
    Decl("def", <<"run">>, <<Arg(<<"self">>, Absent), Arg(<<"value">>, Some("int"))>>,
         Absent, Absent)

\* def _helper(value: int): ...
DefHelper == Decl("def", <<"_", "helper">>, <<Arg(<<"value">>, Some("int"))>>, Absent, Absent)

\* async def fetch(item) -> str: ...
AsyncFetch == Decl("async", <<"fetch">>, <<Arg(<<"item">>, Absent)>>, Some("str"), Absent)

\* async def _poll(item) -> str: ...
AsyncPoll == Decl("async", <<"_", "poll">>, <<Arg(<<"item">>, Absent)>>, Some("str"), Absent)

\* class Model: ...
ClassModel == Decl("class", <<"Model">>, <<>>, Absent, Absent)

\* class _Model: ...
ClassPrivate == Decl("class", <<"_", "Model">>, <<>>, Absent, Absent)

\* x: int
AnnX == Decl("ann", <<"x">>, <<>>, Absent, Some("int"))

\* if flag: ...  (a compound statement that declares nothing itself)
IfBlock == Decl("if", <<>>, <<>>, Absent, Absent)

\* an argument that has a default value (kept in node.args.defaults)
ArgWithDefault(arg, annotation) ==
    [arg |-> arg, annotation |-> annotation, default |-> "literal"]

\* def load(cls, path: str = "x") -> bool: ...
DefLoad ==
    Decl("def", <<"load">>,
         <<Arg(<<"cls">>, Absent), ArgWithDefault(<<"path">>, Some("str"))>>,
         Some("bool"), Absent)

\* def register(rows: List[ int ], cls: type = object): ...
DefRegister ==
    Decl("def", <<"register">>,
         <<Arg(<<"rows">>, Some("List[ int ]")), ArgWithDefault(<<"cls">>, Some("type"))>>,
         Absent, Absent)

DeclShapes ==
    {DefRun, DefHelper, AsyncFetch, AsyncPoll, ClassModel, ClassPrivate, AnnX, IfBlock,
     DefLoad, DefRegister}

At(decl, depth) == [decl |-> decl, depth |-> depth]

\* a declaration may follow ls when it sits in the body of a compound one
CanFollowPy(ls, ln) ==
    LET par == ParentOf(ls, Len(ls) + 1, ln.depth)
    IN /\ ln.depth = 0 \/ (ls # <<>> /\ ln.depth <= Last(ls).depth + 1)
       /\ ln.depth > 0 => (par # 0 /\ ls[par].decl.kind # "ann")

RECURSIVE Modules(_)
Modules(n) ==
    IF n = 0 THEN {<<>>}
    ELSE LET shorter == Modules(n - 1)
         IN shorter \cup
            {Append(x[1], x[2]) :
                x \in {y \in shorter \X [decl : DeclShapes, depth : 0..(n - 1)] :
                         Len(y[1]) = n - 1 /\ CanFollowPy(y[1], y[2])}}

PyFile(exists, suffix, loads, source) ==
    [exists |-> exists, suffix |-> suffix, loads |-> loads, source |-> source]

PyFiles ==
    { PyFile(FALSE, ".py", FALSE, <<>>),
      PyFile(TRUE, ".txt", TRUE, <<>>),
      PyFile(TRUE, ".py", FALSE, <<>>) }
    \cup {PyFile(TRUE, ".py", TRUE, src) : src \in Modules(MaxDecls)}

--------------------------------------------------------------------------
(* python_extractor.py *)

\* ast.unparse: the annotation's text as the unparser writes it
Unparse(annotation) ==
    CASE annotation = "List[ int ]" -> "List[int]"
      [] annotation = "\"Model\"" -> "'Model'"
      [] OTHER -> annotation

\* mutant: the underscore test is dropped
NeverPrivate(name) == FALSE

\* node.name.startswith('_')
IsPrivate(name) == name # <<>> /\ name[1] = "_"

_extract_function_params(node) ==
    LET kept == SelectSeq(node.args, LAMBDA a : a.arg \notin {<<"self">>, <<"cls">>})
    IN [i \in 1..Len(kept) |->
          Parameter(node.name \o <<".">> \o kept[i].arg,
                    IF kept[i].annotation # Absent
                    THEN Some(Unparse(kept[i].annotation[1])) ELSE Absent,
                    TRUE, Absent, Absent)]
       \o (IF node.returns # Absent
           THEN <<Parameter(node.name \o <<".", "return">>,
                            Some(Unparse(node.returns[1])), FALSE, Absent, Absent)>>
           ELSE <<>>)

\* body: the statements directly inside the class
_extract_class_params(node, body) ==
    LET anns == SelectSeq(body, LAMBDA item : item.kind = "ann")
    IN [i \in 1..Len(anns) |->
          Parameter(node.name \o <<".">> \o anns[i].name,
                    Some(Unparse(anns[i].annotation[1])), TRUE, Absent, Absent)]

\* iter_child_nodes: the statements directly inside node i (0: the Module)
ChildNodes(tree, i) == SetToSeq(ChildrenOf(tree, i))

BodyOf(tree, i) ==
    LET kids == ChildNodes(tree, i)
    IN [n \in 1..Len(kids) |-> tree[kids[n]].decl]

\* what the loop body of extract (lines 52-61) adds to parameters for node i
NodeParameters(tree, i) ==
    IF i = 0 THEN <<>>
    ELSE LET node == tree[i].decl
         IN IF node.kind \in {"def", "async"}
            THEN IF ~IsPrivate(node.name) THEN _extract_function_params(node) ELSE <<>>
            ELSE IF node.kind = "class"
            THEN _extract_class_params(node, BodyOf(tree, i))
            ELSE <<>>

\* mutant: the walk goes depth first (children ahead of the waiting nodes)
WalkDepthFirst(queue, kids) == kids \o Tail(queue)

\* ast.walk: todo.popleft(), then todo.extend(iter_child_nodes(node))
WalkNext(queue, kids) == Tail(queue) \o kids


\* the call reached PythonContractExtractor.extract (contract_extractor.py
\* lines 80-82, 90)
AtPython ==
    /\ Extracting /\ pc = "start"
    /\ file.exists
    /\ _detect_file_type(file.suffix) = "python"

--------------------------------------------------------------------------
(* PythonContractExtractor.extract as a state machine *)

\* lines 39-46: ast.parse raises
PyParseFails ==
    /\ AtPython
    /\ ~file.loads
    /\ result' = Raised("ContractExtractionError", "Failed to parse Python file")
    /\ pc' = "done"
    /\ UNCHANGED <<call, file, content, errors, warnings, comp_errors, unclosed,
                   tag_stack, pos, data, todo, parameters, metadata>>

\* lines 39-51: the tree is parsed and the walk starts at the Module node
PyParsed ==
    /\ AtPython
    /\ file.loads
    /\ data' = file.source
    /\ parameters' = <<>> /\ metadata' = <<>>
    /\ todo' = <<0>>
    /\ pc' = "py_walk"
    /\ UNCHANGED <<call, file, content, errors, warnings, comp_errors, unclosed,
                   tag_stack, pos, result>>

\* lines 51-66: one node of ast.walk(tree)
PyWalk ==
    /\ Extracting /\ pc = "py_walk"
    /\ todo # <<>>
    /\ LET i == Head(todo)
       IN /\ todo' = WalkNext(todo, ChildNodes(data, i))
          /\ parameters' = parameters \o NodeParameters(data, i)
          /\ metadata' =
                IF i # 0 /\ data[i].decl.kind = "class"
                THEN LET classes == IF \E k \in 1..Len(metadata) : metadata[k][1] = "classes"
                                    THEN metadata[CHOOSE k \in 1..Len(metadata) :
                                                     metadata[k][1] = "classes"][2]
                                    ELSE <<>>
                     IN Put(metadata, "classes", Append(classes, data[i].decl.name))
                ELSE metadata
    /\ UNCHANGED pc
    /\ UNCHANGED <<call, file, content, errors, warnings, comp_errors, unclosed,
                   tag_stack, pos, result, data>>

\* lines 68-73
PyReturn ==
    /\ Extracting /\ pc = "py_walk"
    /\ todo = <<>>
    /\ result' = ContractBoundary("python", parameters, metadata)
    /\ pc' = "done"
    /\ UNCHANGED <<call, file, content, errors, warnings, comp_errors, unclosed,
                   tag_stack, pos, data, todo, parameters, metadata>>

InitPython == InitExtract(PyFiles)

NextPython ==
    \/ NotFound
    \/ Unsupported
    \/ PyParseFails
    \/ PyParsed
    \/ PyWalk
    \/ PyReturn

SpecPython == InitPython /\ [][NextPython]_vars

--------------------------------------------------------------------------
(* Properties of PythonContractExtractor.extract *)

\* the parameters of a finished extraction, as a set
Emitted == {result.parameters[k] : k \in 1..Len(result.parameters)}

\* the declaration whose body holds line i (0: the module)
Enclosing(tree, i) == ParentOf(tree, i, tree[i].depth)

\* line i lies, at any depth, inside a function whose name starts with '_'
RECURSIVE InsidePrivateFunction(_, _)
InsidePrivateFunction(tree, i) ==
    LET up == Enclosing(tree, i)
    IN /\ up # 0
       /\ \/ /\ tree[up].decl.kind \in {"def", "async"}
             /\ Head(tree[up].decl.name) = "_"
          \/ InsidePrivateFunction(tree, up)

\* the parameters the declarations contribute when taken in the given order
ParametersInOrder(tree, order) ==
    Flatten([k \in 1..Len(order) |-> NodeParameters(tree, order[k])])

\* the lines in source order: a declaration, then what its body declares
DeclarationOrder(tree) == [i \in 1..Len(tree) |-> i]

\* the lines level by level: all of one depth, in source order, then the next
LevelOrder(tree) ==
    Flatten([d \in 1..Len(tree) |-> SetToSeq({i \in 1..Len(tree) : tree[i].depth = d - 1})])

C8_DepthFirstOrder ==
    (Succeeded /\ result.file_type = "python")
    => result.parameters = ParametersInOrder(file.source, DeclarationOrder(file.source))

\* C8 (amended): the Python parameters come in breadth-first order of the
\* syntax tree: the declarations of one nesting depth, in source order, before
\* any declaration nested deeper.
C8_BreadthFirstOrder ==
    (Succeeded /\ result.file_type = "python")
    => result.parameters = ParametersInOrder(file.source, LevelOrder(file.source))

\* C8 witness: class Model with a method run, then a top-level fetch; the
\* parameters of fetch come before the one of run.
C8_Witness ==
    /\ Succeeded
    /\ file.source = <<At(ClassModel, 0), At(DefRun, 1), At(AsyncFetch, 0)>>
    /\ [k \in 1..Len(result.parameters) |-> result.parameters[k].name]
          = << <<"fetch", ".", "item">>, <<"fetch", ".", "return">>,
               <<"run", ".", "value">> >>

--------------------------------------------------------------------------
(* Markdown runbooks: lines of lexemes *)

\* "lorem" stands for a paragraph longer than a description may be
LineShapes ==
    { <<"#", " ", "T">>,
      <<"##", " ", "A">>,
      <<"##", " ", "B">>,
      <<"##", " ", "A", " ">>,
      <<"###", " ", "S">>,
      <<"x">>,
      <<"lorem">>,
      <<>> }

RECURSIVE Runbooks(_)
Runbooks(n) ==
    IF n = 0 THEN {<<>>}
    ELSE LET shorter == Runbooks(n - 1)
         IN shorter \cup
            {Append(x[1], x[2]) : x \in {y \in shorter \X LineShapes : Len(y[1]) = n - 1}}

MdFile(exists, suffix, readable, lines) ==
    [exists |-> exists, suffix |-> suffix, readable |-> readable, lines |-> lines]

MdFiles ==
    { MdFile(FALSE, ".md", FALSE, <<>>),
      MdFile(TRUE, ".txt", TRUE, <<>>),
      MdFile(TRUE, ".md", FALSE, <<>>) }
    \cup {MdFile(TRUE, ".md", TRUE, ls) : ls \in Runbooks(MaxLines)}

--------------------------------------------------------------------------
(* markdown_extractor.py *)

\* characters of a lexeme
Width(lx) ==
    CASE lx = "lorem" -> 250
      [] lx = "##" -> 2
      [] lx = "###" -> 3
      [] OTHER -> 1

RECURSIVE TextWidth(_)
TextWidth(s) == IF s = <<>> THEN 0 ELSE Width(Head(s)) + TextWidth(Tail(s))

\* section_content[:200]
DescriptionLimit == 200

\* s[:n]: the lexemes that begin within the first n characters, and how many
\* characters of them are kept
Truncate(s, n) ==
    LET kept == {i \in 1..Len(s) : TextWidth(SubSeq(s, 1, i - 1)) < n}
    IN [text |-> SubSeq(s, 1, Cardinality(kept)),
        chars |-> IF TextWidth(s) < n THEN TextWidth(s) ELSE n]

\* ^<marker>\s+(.+)$ on one line: group 1, or Absent when the line does not
\* match (the lines of LineShapes never leave \s+ to run into the next line)
HeadingMatch(line, marker) ==
    IF Len(line) >= 3 /\ line[1] = marker /\ line[2] = " "
       /\ \E i \in 3..Len(line) : line[i] # " "
    THEN Some(Slice(line, CHOOSE i \in 3..Len(line) :
                             /\ line[i] # " "
                             /\ \A j \in 3..(i - 1) : line[j] = " ",
                    Len(line)))
    ELSE Absent

\* re.search(r'^#\s+(.+)$', content, re.MULTILINE): group(1) of the first match
TitleMatch(lines) ==
    LET hits == {i \in 1..Len(lines) : HeadingMatch(lines[i], "#") # Absent}
    IN IF hits = {} THEN Absent
       ELSE HeadingMatch(lines[CHOOSE i \in hits : \A j \in hits : i <= j], "#")

\* the text of lines a..b, each preceded by the newline that ends the line
\* before it
Between(lines, a, b) ==
    Flatten([k \in 1..(b - a + 1) |-> <<"\n">> \o lines[a + k - 1]])

\* _extract_sections: the dict as its items in insertion order
_extract_sections(lines) ==
    LET heads == SetToSeq({i \in 1..Len(lines) : HeadingMatch(lines[i], "##") # Absent})
        stop(k) == IF k < Len(heads) THEN heads[k + 1] - 1 ELSE Len(lines)
        RECURSIVE Fill(_, _)
        Fill(sections, k) ==
            IF k > Len(heads) THEN sections
            ELSE Fill(Put(sections,
                          Strip(HeadingMatch(lines[heads[k]], "##")[1]),
                          Strip(Between(lines, heads[k] + 1, stop(k)))),
                      k + 1)
    IN Fill(<<>>, 1)

\* the call reached MarkdownContractExtractor.extract (contract_extractor.py
\* lines 86-88, 90)
AtMarkdown ==
    /\ Extracting /\ pc = "start"
    /\ file.exists
    /\ _detect_file_type(file.suffix) = "markdown"

--------------------------------------------------------------------------
(* MarkdownContractExtractor.extract as a state machine *)

\* lines 39-43
MdReadFails ==
    /\ AtMarkdown
    /\ ~file.readable
    /\ result' = Raised("ContractExtractionError", "Failed to read Markdown file")
    /\ pc' = "done"
    /\ UNCHANGED <<call, file, errors, warnings, comp_errors, unclosed,
                   tag_stack, pos, content, data, todo, parameters, metadata>>

\* lines 39-54: read, title, sections
MdRead ==
    /\ AtMarkdown
    /\ file.readable
    /\ content' = file.lines
    /\ parameters' = <<>>
    /\ metadata' = IF TitleMatch(file.lines) # Absent
                   THEN <<<<"title", Strip(TitleMatch(file.lines)[1])>>>>
                   ELSE <<>>
    /\ data' = _extract_sections(file.lines)
    /\ todo' = [k \in 1..Len(_extract_sections(file.lines)) |-> k]
    /\ pc' = "md_parameters"
    /\ UNCHANGED <<call, file, errors, warnings, comp_errors, unclosed,
                   tag_stack, pos, result>>

\* lines 57-64: one item of sections.items()
MdParameter ==
    /\ Extracting /\ pc = "md_parameters"
    /\ todo # <<>>
    /\ LET section_name == data[Head(todo)][1]
           section_content == data[Head(todo)][2]
       IN parameters' =
             Append(parameters,
                    Parameter(section_name, Some("section"), FALSE, Absent,
                              IF section_content # <<>>
                              THEN Some(Truncate(section_content, DescriptionLimit))
                              ELSE Absent))
    /\ todo' = Tail(todo)
    /\ UNCHANGED pc
    /\ UNCHANGED <<call, file, errors, warnings, comp_errors, unclosed,
                   tag_stack, pos, content, result, data, metadata>>

\* lines 66-73
MdReturn ==
    /\ Extracting /\ pc = "md_parameters"
    /\ todo = <<>>
    /\ result' = ContractBoundary("markdown", parameters,
                                  Append(metadata,
                                         <<"sections", [k \in 1..Len(data) |-> data[k][1]]>>))
    /\ pc' = "done"
    /\ UNCHANGED <<call, file, errors, warnings, comp_errors, unclosed,
                   tag_stack, pos, content, data, todo, parameters, metadata>>

InitMarkdown == InitExtract(MdFiles)

NextMarkdown ==
    \/ NotFound
    \/ Unsupported
    \/ MdReadFails
    \/ MdRead
    \/ MdParameter
    \/ MdReturn

SpecMarkdown == InitMarkdown /\ [][NextMarkdown]_vars

--------------------------------------------------------------------------
(* Properties of MarkdownContractExtractor.extract *)

\* the level-2 heading lines of a runbook, in document order
Level2(lines) == SetToSeq({i \in 1..Len(lines) : Len(lines[i]) > 0 /\ lines[i][1] = "##"})

\* the trimmed text of heading line i
HeadingText(lines, i) == Strip(Tail(lines[i]))

\* the trimmed text from heading line i to the next level-2 heading or the end
BodyOfSection(lines, i) ==
    LET later == {j \in (i + 1)..Len(lines) : Len(lines[j]) > 0 /\ lines[j][1] = "##"}
        end == IF later = {} THEN Len(lines)
               ELSE (CHOOSE j \in later : \A k \in later : j <= k) - 1
    IN Strip(Between(lines, i + 1, end))

\* C9: a runbook yields one parameter per level-2 heading, in document order,
\* named by the trimmed heading text and described by its own section's body,
\* also when two headings carry the same text; metadata 'sections' lists the
\* same names in the same order.
C9_OneParameterPerHeading ==
    (Succeeded /\ result.file_type = "markdown")
    => LET heads == Level2(file.lines)
           names == [k \in 1..Len(heads) |-> HeadingText(file.lines, heads[k])]
       IN /\ [k \in 1..Len(result.parameters) |-> result.parameters[k].name] = names
          /\ \A k \in 1..Len(heads) :
                LET body == BodyOfSection(file.lines, heads[k])
                IN result.parameters[k].description
                      = IF body = <<>> THEN Absent
                        ELSE Some(Truncate(body, DescriptionLimit))
          /\ result.metadata[Len(result.metadata)] = <<"sections", names>>

--------------------------------------------------------------------------
(* Rego policies: lines of lexemes *)

\* lines of a policy
MaxPolicyLines == 3

\* the lexemes of a policy that are no identifier; "str" is a quoted string
RegoPunct == {".", " ", "\n", "=", ":=", "{", "}", "[", "]", ",", "str"}

\* \w+ : an identifier lexeme
IsIdent(x) == x \notin RegoPunct

\* one line each, with the newline that ends it; '==' is two '=' characters
PolicyLines ==
    { <<"package", " ", "authz", ".", "policy", "\n">>,
      <<"default", " ", "allow", " ", "=", " ", "false", "\n">>,
      <<"allow", " ", "{", "\n">>,
      <<"violation", "[", "msg", ",", " ", "id", "]", " ", "{", "\n">>,
      <<"input", ".", "user", ".", "role", " ", "=", "=", " ", "str", "\n">>,
      <<"input", ".", "action", " ", "=", "=", " ", "str", "\n">>,
      <<"user_input", ".", "role", " ", "=", "=", " ", "str", "\n">>,
      <<"}", "\n">> }

RECURSIVE Policies(_)
Policies(n) ==
    IF n = 0 THEN {<<>>}
    ELSE LET shorter == Policies(n - 1)
         IN shorter \cup
            {Append(x[1], x[2]) : x \in {y \in shorter \X PolicyLines : Len(y[1]) = n - 1}}

RegoFile(exists, suffix, readable, lines) ==
    [exists |-> exists, suffix |-> suffix, readable |-> readable, lines |-> lines]

RegoFiles ==
    { RegoFile(FALSE, ".rego", FALSE, <<>>),
      RegoFile(TRUE, ".txt", TRUE, <<>>),
      RegoFile(TRUE, ".rego", FALSE, <<>>) }
    \cup {RegoFile(TRUE, ".rego", TRUE, ls) : ls \in Policies(MaxPolicyLines)}

--------------------------------------------------------------------------
(* rego_extractor.py *)

\* \s* from position i: the first position at or after i that holds no white
\* space (Len(text) + 1 when there is none)
SkipSpace(text, i) ==
    LET rest == {j \in i..Len(text) : text[j] # " " /\ text[j] # "\n"}
    IN IF rest = {} THEN Len(text) + 1 ELSE CHOOSE j \in rest : \A k \in rest : j <= k

\* [\w.]+ from position i: the last position of the run of identifiers and dots
RECURSIVE NameEnd(_, _)
NameEnd(text, i) ==
    IF i + 1 <= Len(text) /\ (IsIdent(text[i + 1]) \/ text[i + 1] = ".")
    THEN NameEnd(text, i + 1)
    ELSE i

\* re.search(r'package\s+([\w.]+)', content): group(1) of the first match
PackageMatch(text) ==
    LET NameAt(i) == SkipSpace(text, i + 1)
        starts == {i \in 1..Len(text) :
                     /\ text[i] = "package"
                     /\ NameAt(i) > i + 1
                     /\ NameAt(i) <= Len(text)
                     /\ (IsIdent(text[NameAt(i)]) \/ text[NameAt(i)] = ".")}
    IN IF starts = {} THEN Absent
       ELSE LET i == CHOOSE k \in starts : \A j \in starts : k <= j
            IN Some(Slice(text, NameAt(i), NameEnd(text, NameAt(i))))

\* re.finditer of  (\w+)(?:\[([^\]]+)\])?\s*(?::=|=|\{) : the leftmost match at
\* or after p.  The bracket group is taken when what follows it matches, and
\* left out otherwise.
RuleMatch(text, p) ==
    LET Bracket(i) ==
            IF i + 1 <= Len(text) /\ text[i + 1] = "["
               /\ IndexFrom(text, "]", i + 2) > i + 2
            THEN IndexFrom(text, "]", i + 2)
            ELSE 0
        OpAfter(j) ==
            LET k == SkipSpace(text, j + 1)
            IN IF k <= Len(text) /\ text[k] \in {":=", "=", "{"} THEN k ELSE 0
        Bracketed(i) == Bracket(i) # 0 /\ OpAfter(Bracket(i)) # 0
        End(i) == IF Bracketed(i) THEN OpAfter(Bracket(i)) ELSE OpAfter(i)
        starts == {i \in p..Len(text) : IsIdent(text[i]) /\ End(i) # 0}
    IN IF starts = {} THEN NoMatch
       ELSE LET i == CHOOSE k \in starts : \A j \in starts : k <= j
            IN [found |-> TRUE, start |-> i, rule_name |-> text[i],
                rule_params |-> IF Bracketed(i)
                                THEN Some(Slice(text, i + 2, Bracket(i) - 1))
                                ELSE Absent,
                end |-> End(i)]

\* str.split(',')
RECURSIVE SplitComma(_)
SplitComma(s) ==
    IF IndexFrom(s, ",", 1) = 0 THEN <<s>>
    ELSE <<Slice(s, 1, IndexFrom(s, ",", 1) - 1)>>
         \o SplitComma(Slice(s, IndexFrom(s, ",", 1) + 1, Len(s)))

\* lines 66-80: what one match of rule_pattern appends to parameters
RuleParameters(match) ==
    IF match.rule_name \in {"package", "import", "default"} THEN <<>>
    ELSE <<Parameter(<<match.rule_name>>, Some("rule"), FALSE, Absent, Absent)>>
         \o (IF match.rule_params = Absent THEN <<>>
             ELSE LET names == SplitComma(match.rule_params[1])
                  IN [k \in 1..Len(names) |->
                         Parameter(<<match.rule_name, ".">> \o Strip(names[k]),
                                   Some("input"), TRUE, Absent, Absent)])

\* identifiers that end with another: 'input.' is a substring of 'user_input.'
IdentSuffixes == {<<"user_input", "input">>}

IdentEndsWith(w, f) == w = f \/ <<w, f>> \in IdentSuffixes

\* (?:\.\w+)* from the identifier at i: the last position of the dotted path
RECURSIVE PathEnd(_, _)
PathEnd(text, i) ==
    IF i + 2 <= Len(text) /\ text[i + 1] = "." /\ IsIdent(text[i + 2])
    THEN PathEnd(text, i + 2)
    ELSE i

\* re.findall(r'input\.(\w+(?:\.\w+)*)', content) from position p: group 1 of
\* the matches, left to right, none overlapping another.  The pattern is not
\* anchored at a word boundary.
RECURSIVE FindInputRefs(_, _)
FindInputRefs(text, p) ==
    LET starts == {i \in p..(Len(text) - 2) :
                     /\ IsIdent(text[i]) /\ IdentEndsWith(text[i], "input")
                     /\ text[i + 1] = "."
                     /\ IsIdent(text[i + 2])}
    IN IF starts = {} THEN <<>>
       ELSE LET i == CHOOSE k \in starts : \A j \in starts : k <= j
            IN <<Slice(text, i + 2, PathEnd(text, i + 2))>>
               \o FindInputRefs(text, PathEnd(text, i + 2) + 1)

\* set(...) of a list
SetOf(s) == {s[k] : k \in 1..Len(s)}

\* [p.name for p in parameters if p.type == "rule"]
RuleNames(params) ==
    LET idx == SetToSeq({k \in 1..Len(params) : params[k].type = Some("rule")})
    IN [k \in 1..Len(idx) |-> params[idx[k]].name]

\* the call reached RegoContractExtractor.extract (contract_extractor.py lines
\* 83-85, 90)
AtRego ==
    /\ Extracting /\ pc = "start"
    /\ file.exists
    /\ _detect_file_type(file.suffix) = "rego"

--------------------------------------------------------------------------
(* RegoContractExtractor.extract as a state machine *)

\* lines 38-42
RegoReadFails ==
    /\ AtRego
    /\ ~file.readable
    /\ result' = Raised("ContractExtractionError", "Failed to read Rego file")
    /\ pc' = "done"
    /\ UNCHANGED <<call, file, errors, warnings, comp_errors, unclosed,
                   tag_stack, pos, content, data, todo, parameters, metadata>>

\* lines 38-50: read, package
RegoRead ==
    /\ AtRego
    /\ file.readable
    /\ content' = Flatten(file.lines)
    /\ parameters' = <<>>
    /\ metadata' = IF PackageMatch(Flatten(file.lines)) # Absent
                   THEN <<<<"package", PackageMatch(Flatten(file.lines))[1]>>>>
                   ELSE <<>>
    /\ pos' = 1
    /\ pc' = "rego_rules"
    /\ UNCHANGED <<call, file, errors, warnings, comp_errors, unclosed,
                   tag_stack, result, data, todo>>

\* lines 56-80: one match of re.finditer(rule_pattern, content)
RegoRule ==
    /\ Extracting /\ pc = "rego_rules"
    /\ RuleMatch(content, pos).found
    /\ parameters' = parameters \o RuleParameters(RuleMatch(content, pos))
    /\ pos' = RuleMatch(content, pos).end + 1
    /\ UNCHANGED pc
    /\ UNCHANGED <<call, file, errors, warnings, comp_errors, unclosed,
                   tag_stack, content, result, data, todo, metadata>>

\* lines 83-84: no match is left; input_refs = set(re.findall(...))
RegoInputRefs ==
    /\ Extracting /\ pc = "rego_rules"
    /\ ~RuleMatch(content, pos).found
    /\ todo' = SetOf(FindInputRefs(content, 1))
    /\ pc' = "rego_inputs"
    /\ UNCHANGED <<call, file, errors, warnings, comp_errors, unclosed,
                   tag_stack, pos, content, result, data, parameters, metadata>>

\* lines 86-92: one iteration of 'for input_ref in input_refs'.  A set of
\* strings is iterated in the order of its hash table, which the hash seed of
\* the interpreter decides: any element not yet visited may come next.
RegoInput ==
    /\ Extracting /\ pc = "rego_inputs"
    /\ \E input_ref \in todo :
          /\ parameters' =
                Append(parameters,
                       Parameter(<<"input", ".">> \o input_ref, Some("input"), FALSE,
                                 Absent, Absent))
          /\ todo' = todo \ {input_ref}
    /\ UNCHANGED pc
    /\ UNCHANGED <<call, file, errors, warnings, comp_errors, unclosed,
                   tag_stack, pos, content, result, data, metadata>>

\* lines 94-101
RegoReturn ==
    /\ Extracting /\ pc = "rego_inputs"
    /\ todo = {}
    /\ result' = ContractBoundary("rego", parameters,
                                  Append(metadata, <<"rules", RuleNames(parameters)>>))
    /\ pc' = "done"
    /\ UNCHANGED <<call, file, errors, warnings, comp_errors, unclosed,
                   tag_stack, pos, content, data, todo, parameters, metadata>>

InitRego == InitExtract(RegoFiles)

NextRego ==
    \/ NotFound
    \/ Unsupported
    \/ RegoReadFails
    \/ RegoRead
    \/ RegoRule
    \/ RegoInputRefs
    \/ RegoInput
    \/ RegoReturn

SpecRego == InitRego /\ [][NextRego]_vars

--------------------------------------------------------------------------
(* Properties of RegoContractExtractor.extract *)

\* the full dotted paths rooted at the identifier input that occur in a text
InputPaths(text) ==
    {Slice(text, i, PathEnd(text, i + 2)) :
        i \in {j \in 1..(Len(text) - 2) :
                 text[j] = "input" /\ text[j + 1] = "." /\ IsIdent(text[j + 2])}}

\* the parameters the input-reference step emitted: type 'input', not required
InputReferences(params) ==
    LET idx == SetToSeq({k \in 1..Len(params) :
                           params[k].type = Some("input") /\ ~params[k].required})
    IN [k \in 1..Len(idx) |-> params[idx[k]]]

RegoSucceeded == Succeeded /\ result.file_type = "rego"

\* C21: the input-reference step emits exactly one parameter (type 'input',
\* required false) for each distinct full dotted path rooted at input that
\* occurs in the policy text, however often the path occurs, and none for a
\* path that does not occur.
C21_InputReferences ==
    RegoSucceeded =>
        LET refs == InputReferences(result.parameters)
            paths == InputPaths(Flatten(file.lines))
        IN /\ \A path \in paths :
                 Cardinality({k \in 1..Len(refs) : refs[k].name = path}) = 1
           /\ \A k \in 1..Len(refs) : refs[k].name \in paths

--------------------------------------------------------------------------
(* validate_mdx over documents that vary the components and attributes *)

\* an attribute written with a blank before '=', as in path = "x"
AttrSpaced(n) == [name |-> n, sep |-> " =", gt |-> FALSE]

ComponentShapes ==
    { SelfTag("ParamField", <<>>),
      SelfTag("ParamField", <<Attr("path")>>),
      SelfTag("ParamField", <<Attr("type")>>),
      SelfTag("ParamField", <<Attr("path"), Attr("type")>>),
      SelfTag("ParamField", <<Attr("xpath"), Attr("type")>>),
      OpenTag("ParamField", <<AttrSpaced("path"), Attr("type")>>),
      CloseTag("ParamField"),
      OpenTag("Step", <<>>),
      OpenTag("Step", <<Attr("title")>>),
      SelfTag("Step", <<Attr("subtitle")>>),
      SelfTag("Step", <<AttrGt("icon"), Attr("title")>>),
      CloseTag("Step"),
      OpenTag("Foo", <<>>),
      SelfTag("Foo", <<>>),
      CloseTag("Foo"),
      SelfTag("Callout", <<>>) }

ComponentBodies == UNION {[1..n -> ComponentShapes] : n \in 0..MaxComponents}

MdxComponentFiles ==
    { [exists |-> FALSE, readable |-> FALSE, stem |-> GoodStem, suffix |-> ".mdx",
       front |-> NoFront, body |-> <<>>],
      [exists |-> TRUE, readable |-> FALSE, stem |-> GoodStem, suffix |-> ".mdx",
       front |-> NoFront, body |-> <<>>] }
    \cup
    [exists : {TRUE}, readable : {TRUE}, stem : {GoodStem}, suffix : {".mdx"},
     front : {GoodFront}, body : ComponentBodies]

InitMdxComponents ==
    /\ call = "validate_mdx"
    /\ pc = "start"
    /\ file \in MdxComponentFiles
    /\ content = <<>>
    /\ result = None
    /\ IdleValidator
    /\ IdleExtractor

SpecMdxComponents == InitMdxComponents /\ [][NextMdx]_vars

\* how many errors of result.errors equal e
Reported(e) == Cardinality({i \in 1..Len(result.errors) : result.errors[i] = e})

\* the required-attribute error of tag k of the body for attribute f
RequiresError(k, f) ==
    [line |-> TagLine(file, k), kind |-> "requires attribute",
     arg |-> <<file.body[k].name, f>>]

\* C11: every opening or self-closing ParamField is reported once for path
\* exactly when it carries no attribute named path, and independently once for
\* type exactly when it carries no attribute named type; every Step is
\* reported once for title exactly when it carries no attribute named title;
\* each error carries the tag's line.
C11_RequiredAttributes ==
    FullRun =>
        \A k \in 1..Len(file.body) :
            LET tag == file.body[k]
                Exactly(f) ==
                    Reported(RequiresError(k, f)) = (IF Carries(tag, f) THEN 0 ELSE 1)
            IN tag.kind # "close" =>
                  /\ tag.name = "ParamField" => Exactly("path") /\ Exactly("type")
                  /\ tag.name = "Step" => Exactly("title")

\* the tag of the body that starts at position start of the content
TagAt(start) == LineNum(content, start) - FrontLines(file)

\* errors without their line numbers
Unplaced(errs) == [i \in 1..Len(errs) |-> [kind |-> errs[i].kind, arg |-> errs[i].arg]]

\* the whitelist and required-attribute errors reported at the line of tag k
ComponentErrorsAt(k) ==
    Unplaced(SelectSeq(comp_errors,
                       LAMBDA e : /\ e.line = TagLine(file, k)
                                  /\ e.kind \in {"Unknown component", "requires attribute"}))

\* C12: the balance scan steps over a self-closing tag leaving the stack and
\* its errors as they are, no 'Unclosed tag' error is reported at the line of
\* a self-closing tag, and the whitelist and required-attribute checks report
\* for it what they report for an opening tag of that name and attributes.
C12_SelfClosingExempt ==
    /\ [][ (/\ call = "validate_mdx" /\ pc = "tags"
            /\ TagMatch(content, pos, TRUE).found
            /\ file.body[TagAt(TagMatch(content, pos, TRUE).start)].kind = "self")
           => (tag_stack' = tag_stack /\ unclosed' = unclosed) ]_vars
    /\ [](FullRun =>
            \A k \in 1..Len(file.body) :
                file.body[k].kind = "self" =>
                    /\ Reported([line |-> TagLine(file, k), kind |-> "Unclosed tag",
                                 arg |-> <<file.body[k].name>>]) = 0
                    /\ ComponentErrorsAt(k) =
                          Unplaced(ComponentErrors(
                              RenderTag(OpenTag(file.body[k].name, file.body[k].attrs)), 1)))

\* C13: for every readable file all four checks run, none skipped because an
\* earlier one reported errors, and result.errors is the filename errors, then
\* the frontmatter errors, then the whitelist and attribute errors, then the
\* tag-balance errors.
C13_AllChecksConcatenated ==
    FullRun =>
        /\ result.errors = _validate_filename(file) \o _validate_frontmatter(content)
                              \o ComponentErrors(content, 1) \o unclosed
        /\ unclosed = ErrorsOfKind(unclosed, "Closing tag without matching opening tag")
                         \o UnclosedErrors(tag_stack)
        /\ ~TagMatch(content, pos, TRUE).found

\* C13 witness: a four-word name, no frontmatter and an untitled, never closed
\* <Step>: one error of each check, in the order of the checks.
C13_Witness ==
    /\ FullRun
    /\ file.stem = FourWordStem /\ file.front = NoFront
    /\ file.body = <<OpenTag("Step", <<>>)>>
    /\ result.errors =
          << [line |-> NoLine, kind |-> "Filename must have max 3 words", arg |-> <<>>],
             [line |-> 1, kind |-> "Missing frontmatter section", arg |-> <<>>],
             [line |-> 1, kind |-> "requires attribute", arg |-> <<"Step", "title">>],
             [line |-> 1, kind |-> "Unclosed tag", arg |-> <<"Step">>] >>

\* C14: for a missing or unreadable file validate_mdx returns (it does not
\* raise) an invalid ValidationResult whose only error has no line, and no
\* filename, frontmatter, component or tag-balance check has contributed.
C14_ShortCircuit ==
    (Returned /\ ~(file.exists /\ file.readable))
    => /\ result \in {ValidationResult(FALSE, <<ValidationError(NoLine, kind, <<>>)>>, <<>>) :
                         kind \in {"File not found", "Failed to read file"}}
       /\ result.errors[1].kind = "File not found" <=> ~file.exists
       /\ errors = <<>> /\ comp_errors = <<>> /\ unclosed = <<>> /\ tag_stack = <<>>
       /\ content = <<>>

\* C14 witness: the file exists, reading it failed, and the call returned the
\* single read error.
C14_Witness ==
    /\ Returned
    /\ file.exists /\ ~file.readable
    /\ ~result.valid
    /\ result.errors = <<[line |-> NoLine, kind |-> "Failed to read file", arg |-> <<>>]>>

--------------------------------------------------------------------------
(* extract_contract_boundary over paths of every suffix *)

Suffixes ==
    {".yaml", ".yml", ".YAML", ".Yml", ".py", ".PY", ".rego", ".REGO", ".md",
     ".markdown", ".MD", ".Markdown", ".txt", ".TXT", ".mdx", ".json", ""}

\* the suffixes of Suffixes that case-folded are one of the six supported
SupportedSuffixes ==
    {".yaml", ".yml", ".YAML", ".Yml", ".py", ".PY", ".rego", ".REGO", ".md",
     ".markdown", ".MD", ".Markdown"}

DispatchFiles ==
    {MdFile(FALSE, s, FALSE, <<>>) : s \in Suffixes}
    \cup {MdFile(TRUE, s, TRUE, <<>>) : s \in Suffixes \ SupportedSuffixes}
    \cup {RegoFile(TRUE, s, r, ls) :
             s \in {".rego", ".REGO"}, r \in BOOLEAN, ls \in Policies(1)}
    \cup {[f EXCEPT !.suffix = s] :
             f \in {y \in YamlFiles :
                      /\ y.exists /\ y.suffix # ".txt"
                      /\ (y.block = Absent \/ Len(y.block[1]) <= 1)},
             s \in {".yaml", ".yml", ".YAML", ".Yml"}}
    \cup {PyFile(TRUE, s, l, src) :
             s \in {".py", ".PY"}, l \in BOOLEAN, src \in Modules(1)}
    \cup {MdFile(TRUE, s, r, ls) :
             s \in {".md", ".markdown", ".MD", ".Markdown"}, r \in BOOLEAN,
             ls \in Runbooks(1)}

InitDispatch == InitExtract(DispatchFiles)

NextDispatch ==
    \/ NotFound
    \/ Unsupported
    \/ YamlLoadFails
    \/ YamlNotDict
    \/ YamlLoaded
    \/ YamlMetadata
    \/ YamlSpec
    \/ YamlReturn
    \/ PyParseFails
    \/ PyParsed
    \/ PyWalk
    \/ PyReturn
    \/ MdReadFails
    \/ MdRead
    \/ MdParameter
    \/ MdReturn
    \/ RegoReadFails
    \/ RegoRead
    \/ RegoRule
    \/ RegoInputRefs
    \/ RegoInput
    \/ RegoReturn

SpecDispatch == InitDispatch /\ [][NextDispatch]_vars

\* C15: a path that does not exist ends in ContractExtractionError 'File not
\* found' whatever its suffix; a path that exists ends in 'Unsupported file
\* type' exactly when its suffix, case-folded, is none of .yaml, .yml, .py,
\* .rego, .md, .markdown; in both cases no extractor has run and no
\* ContractBoundary is returned.
C15_DispatchErrors ==
    /\ (Extracting /\ ~file.exists) =>
          /\ pc \in {"start", "done"}
          /\ pc = "done" =>
                result = [kind |-> "ContractExtractionError", message |-> "File not found"]
          /\ IdleExtractor
    /\ (Extracting /\ file.exists /\ file.suffix \notin SupportedSuffixes) =>
          /\ pc \in {"start", "done"}
          /\ pc = "done" =>
                result = [kind |-> "ContractExtractionError",
                          message |-> "Unsupported file type"]
          /\ IdleExtractor
    /\ (Finished /\ file.exists /\ file.suffix \in SupportedSuffixes) =>
          ~(/\ result.kind = "ContractExtractionError"
            /\ result.message \in {"File not found", "Unsupported file type"})

\* C15 witness: notes.txt does not exist; the call ended in 'File not found',
\* not in 'Unsupported file type'.
C15_Witness ==
    /\ Finished
    /\ ~file.exists /\ file.suffix = ".txt"
    /\ result = [kind |-> "ContractExtractionError", message |-> "File not found"]

--------------------------------------------------------------------------
(* validate_mdx over documents that vary the frontmatter *)

FieldShapes ==
    { Field("title", "txt"), Field("description", "txt"),
      Field("category", "spec"), Field("category", "blog"), Field("category", ""),
      Field("", "adr"), Field("subtitle", "txt") }

FrontBlocks ==
    {NoFront} \cup
    {[present |-> TRUE, fields |-> fs] :
        fs \in UNION {[1..n -> FieldShapes] : n \in 0..MaxFields}}

MdxFrontFiles ==
    { [exists |-> FALSE, readable |-> FALSE, stem |-> GoodStem, suffix |-> ".mdx",
       front |-> NoFront, body |-> <<>>],
      [exists |-> TRUE, readable |-> FALSE, stem |-> GoodStem, suffix |-> ".mdx",
       front |-> NoFront, body |-> <<>>] }
    \cup
    [exists : {TRUE}, readable : {TRUE}, stem : {GoodStem}, suffix : {".mdx"},
     front : FrontBlocks, body : {<<>>, <<OpenTag("Steps", <<>>), CloseTag("Steps")>>}]

InitMdxFront ==
    /\ call = "validate_mdx"
    /\ pc = "start"
    /\ file \in MdxFrontFiles
    /\ content = <<>>
    /\ result = None
    /\ IdleValidator
    /\ IdleExtractor

SpecMdxFront == InitMdxFront /\ [][NextMdx]_vars

\* the lines of the block whose key is k
FieldsNamed(front, k) == SelectSeq(front.fields, LAMBDA f : f.key = k)

\* C16: when the frontmatter has a category field, one 'Invalid category'
\* error naming that field's own value (the empty value included) is reported
\* exactly when the value is not spec, runbook or adr, and nothing of a
\* following line is ever taken for the value; without a category field no
\* such error is reported.
C16_CategoryOwnValue ==
    (FullRun /\ file.front.present) =>
        LET cats == FieldsNamed(file.front, "category")
            invalid == ErrorsOfKind(result.errors, "Invalid category")
        IN IF cats = <<>> THEN invalid = <<>>
           ELSE IF cats[1].value \in {"spec", "runbook", "adr"} THEN invalid = <<>>
           ELSE invalid = <<[line |-> NoLine, kind |-> "Invalid category",
                             arg |-> IF cats[1].value = "" THEN <<>>
                                     ELSE <<cats[1].value>>]>>

\* the errors the frontmatter check contributed to result.errors
FrontmatterKinds ==
    {"Missing frontmatter section", "Missing required frontmatter field",
     "Invalid category"}

\* C17: content that does not open with a '---' ... '---' block gets exactly
\* the missing-frontmatter error and no field or category error; when the block
\* is present, each of title, category, description gets its own 'Missing
\* required frontmatter field' error exactly when no line of the block starts
\* with that key, and the missing-frontmatter error is not reported.
C17_MissingFields ==
    FullRun =>
        LET front == SelectSeq(result.errors, LAMBDA e : e.kind \in FrontmatterKinds)
        IN IF ~file.front.present
           THEN front = <<[line |-> 1, kind |-> "Missing frontmatter section",
                           arg |-> <<>>]>>
           ELSE /\ ErrorsOfKind(front, "Missing frontmatter section") = <<>>
                /\ \A k \in {"title", "category", "description"} :
                      Reported([line |-> NoLine,
                                kind |-> "Missing required frontmatter field",
                                arg |-> <<k>>])
                         = (IF FieldsNamed(file.front, k) = <<>> THEN 1 ELSE 0)

\* C18: every opening or self-closing tag whose name is none of ParamField,
\* Step, Steps, CodeBlock, Callout yields exactly one 'Unknown component'
\* error that names it, lists the whitelist and carries the tag's line, and no
\* required-attribute error; a tag with a whitelisted name, and a closing tag,
\* yields no 'Unknown component' error.
C18_UnknownComponent ==
    FullRun =>
        /\ \A k \in 1..Len(file.body) :
              LET tag == file.body[k]
                  unknown == SelectSeq(result.errors,
                                LAMBDA e : e.kind = "Unknown component"
                                           /\ e.line = TagLine(file, k))
              IN IF /\ tag.kind # "close"
                    /\ tag.name \notin {"ParamField", "Step", "Steps", "CodeBlock", "Callout"}
                 THEN /\ unknown = <<[line |-> TagLine(file, k),
                                      kind |-> "Unknown component",
                                      arg |-> <<tag.name, "ParamField", "Step", "Steps",
                                                "CodeBlock", "Callout">>]>>
                      /\ \A i \in 1..Len(result.errors) :
                            ~(/\ result.errors[i].kind = "requires attribute"
                              /\ result.errors[i].line = TagLine(file, k))
                 ELSE unknown = <<>>
        /\ \A i \in 1..Len(result.errors) :
              result.errors[i].kind = "Unknown component"
              => result.errors[i].line \in {TagLine(file, k) : k \in 1..Len(file.body)}

\* C18 witness: <Foo /> and <Callout /> were checked: one error, for Foo at
\* its line 6.
C18_Witness ==
    /\ FullRun
    /\ file.body = <<SelfTag("Foo", <<>>), SelfTag("Callout", <<>>)>>
    /\ result.errors = <<[line |-> 6, kind |-> "Unknown component",
                          arg |-> <<"Foo", "ParamField", "Step", "Steps", "CodeBlock",
                                    "Callout">>]>>

--------------------------------------------------------------------------
(* validate_mdx over files that vary the name *)

\* "": nothing between two hyphens, or before the first, or after the last
StemWords == {"lower", "Upper", "d2", "d4", "d8", "d10", ""}

\* the words joined by hyphens
RECURSIVE JoinStem(_)
JoinStem(ws) ==
    IF ws = <<>> THEN <<>>
    ELSE (IF Head(ws) = "" THEN <<>> ELSE <<Head(ws)>>)
         \o (IF Len(ws) > 1 THEN <<"-">> \o JoinStem(Tail(ws)) ELSE <<>>)

NamedStems ==
    {JoinStem(ws) : ws \in UNION {[1..n -> StemWords] : n \in 1..MaxStemWords}} \ {<<>>}

MdxNameFiles ==
    { [exists |-> FALSE, readable |-> FALSE, stem |-> GoodStem, suffix |-> ".mdx",
       front |-> NoFront, body |-> <<>>],
      [exists |-> TRUE, readable |-> FALSE, stem |-> GoodStem, suffix |-> ".mdx",
       front |-> NoFront, body |-> <<>>] }
    \cup
    [exists : {TRUE}, readable : {TRUE}, stem : NamedStems, suffix : {".mdx", ".md"},
     front : {GoodFront}, body : {<<OpenTag("Steps", <<>>), CloseTag("Steps")>>}]

InitMdxName ==
    /\ call = "validate_mdx"
    /\ pc = "start"
    /\ file \in MdxNameFiles
    /\ content = <<>>
    /\ result = None
    /\ IdleValidator
    /\ IdleExtractor

SpecMdxName == InitMdxName /\ [][NextMdx]_vars

\* the stem holds a YYYY-MM-DD token, or a run of eight or of ten digits
HoldsTimestamp(stem) ==
    \/ \E i \in 1..(Len(stem) - 4) :
          SubSeq(stem, i, i + 4) = <<"d4", "-", "d2", "-", "d2">>
    \/ \E i \in 1..Len(stem) : stem[i] \in {"d8", "d10"}

\* C19: the max-3-words error is reported exactly when the stem splits on
\* hyphens into more than three words; the timestamp error is reported for
\* every stem holding a YYYY-MM-DD token or a run of 8 or 10 digits, whatever
\* the other checks say; the extension error is reported exactly when the
\* suffix is not .mdx and the kebab-case error for every stem holding an
\* upper-case letter, each check adding its error independently of the others.
C19_FilenameChecks ==
    FullRun =>
        LET Error(kind, arg) == Reported([line |-> NoLine, kind |-> kind, arg |-> arg])
            upper == \E i \in 1..Len(file.stem) : file.stem[i] = "Upper"
        IN /\ Error("Filename must have max 3 words", <<>>)
                 = (IF Count(file.stem, "-") + 1 > 3 THEN 1 ELSE 0)
           /\ HoldsTimestamp(file.stem)
                 => Error("Filename must not contain timestamps", <<>>) = 1
           /\ Error("File must have .mdx extension", <<file.suffix>>)
                 = (IF file.suffix = ".mdx" THEN 0 ELSE 1)
           /\ upper => Error("Filename must be kebab-case", <<>>) = 1
           /\ Error("Filename must be kebab-case", <<>>) \in {0, 1}

\* C19 witness: notes-2024-01-15.md: four words and a date, kebab-case: the
\* extension, word-count and timestamp errors, in that order.
C19_Witness ==
    /\ FullRun
    /\ file.stem = <<"lower", "-", "d4", "-", "d2", "-", "d2">>
    /\ file.suffix = ".md"
    /\ result.errors =
          << [line |-> NoLine, kind |-> "File must have .mdx extension", arg |-> <<".md">>],
             [line |-> NoLine, kind |-> "Filename must have max 3 words", arg |-> <<>>],
             [line |-> NoLine, kind |-> "Filename must not contain timestamps",
              arg |-> <<>>] >>

--------------------------------------------------------------------------
(* Properties of PythonContractExtractor._extract_function_params *)

\* the parameters of a function declaration as its source declares them: the
\* arguments but a leading self or cls, each typed by its annotation's source
\* text, then the return annotation if there is one
DeclaredParameters(node) ==
    LET from == IF node.args # <<>> /\ node.args[1].arg \in {<<"self">>, <<"cls">>}
                THEN 2 ELSE 1
        named == Slice(node.args, from, Len(node.args))
    IN [i \in 1..Len(named) |->
           [name |-> node.name \o <<".">> \o named[i].arg,
            type |-> named[i].annotation,
            required |-> TRUE, default |-> <<>>, description |-> <<>>]]
       \o (IF node.returns # <<>>
           THEN <<[name |-> node.name \o <<".", "return">>, type |-> node.returns,
                   required |-> FALSE, default |-> <<>>, description |-> <<>>]>>
           ELSE <<>>)

\* sub occurs in s as a run of consecutive elements
IsRunOf(sub, s) ==
    \E o \in 0..(Len(s) - Len(sub)) : SubSeq(s, o + 1, o + Len(sub)) = sub

\* C20: every public function or async function declaration contributes, in
\* the order of its arguments, one required parameter '<function>.<argument>'
\* typed by the annotation's source text (absent if unannotated) for each
\* argument but a leading self or cls, arguments with a default value
\* included, followed by the non-required '<function>.return' exactly when a
\* return annotation is declared.
C20_FunctionParameters ==
    (Succeeded /\ result.file_type = "python")
    => \A i \in 1..Len(file.source) :
          LET node == file.source[i].decl
          IN (node.kind \in {"def", "async"} /\ Head(node.name) # "_")
             => /\ IsRunOf(DeclaredParameters(node), result.parameters)
                /\ \A p \in Emitted :
                      (Len(p.name) > Len(node.name)
                       /\ SubSeq(p.name, 1, Len(node.name) + 1) = node.name \o <<".">>)
                      => \E k \in 1..Len(DeclaredParameters(node)) :
                            DeclaredParameters(node)[k] = p

--------------------------------------------------------------------------
(* extract_contract_boundary called twice on the same path *)

RepeatFiles == DispatchFiles \cup RegoFiles

InitRepeat == InitExtract(RepeatFiles)

\* the caller, holding what the call returned, calls extract_contract_boundary
\* again with the same path: the new call starts with locals of its own
CallAgain ==
    /\ Finished
    /\ pc' = "start"
    /\ content' = <<>>
    /\ data' = None /\ todo' = <<>> /\ parameters' = <<>> /\ metadata' = <<>>
    /\ pos' = 1
    /\ UNCHANGED <<call, file, errors, warnings, comp_errors, unclosed, tag_stack,
                   result>>

NextRepeat ==
    \/ NotFound
    \/ Unsupported
    \/ YamlLoadFails
    \/ YamlNotDict
    \/ YamlLoaded
    \/ YamlMetadata
    \/ YamlSpec
    \/ YamlReturn
    \/ PyParseFails
    \/ PyParsed
    \/ PyWalk
    \/ PyReturn
    \/ MdReadFails
    \/ MdRead
    \/ MdParameter
    \/ MdReturn
    \/ RegoReadFails
    \/ RegoRead
    \/ RegoRule
    \/ RegoInputRefs
    \/ RegoInput
    \/ RegoReturn
    \/ CallAgain

SpecRepeat == InitRepeat /\ [][NextRepeat]_vars

\* a call ends while the caller holds the result of the call before it
SecondReturn == Extracting /\ pc # "done" /\ pc' = "done" /\ result # None

--------------------------------------------------------------------------
(* Properties of the tag-balance scan over tags of any name *)

\* C23: the tag-balance scan does not look at the whitelist: an opening tag
\* whose name is not whitelisted is pushed with its line, a closing tag of such
\* a name that matches the top of the stack pops it, and one left on the stack
\* has an 'Unclosed tag' error besides its 'Unknown component' error; the
\* balance check's own errors are the mismatched-closing errors in document
\* order followed by the unclosed errors in order of opening, bottom of the
\* stack first.
C23_BalanceIgnoresWhitelist ==
    [][ LET m == TagMatch(content, pos, TRUE)
            line == Count(Slice(content, 1, m.start - 1), "\n") + 1
            listed == {"ParamField", "Step", "Steps", "CodeBlock", "Callout"}
        IN /\ (call = "validate_mdx" /\ pc = "tags" /\ m.found /\ m.name \notin listed)
              => IF m.closing
                 THEN (tag_stack # <<>> /\ tag_stack[Len(tag_stack)].name = m.name)
                      => /\ tag_stack' = SubSeq(tag_stack, 1, Len(tag_stack) - 1)
                         /\ unclosed' = unclosed
                 ELSE (m.attributes = <<>> \/ m.attributes[Len(m.attributes)] # "/")
                      => /\ tag_stack' = Append(tag_stack, [name |-> m.name, line |-> line])
                         /\ unclosed' = unclosed
           /\ (call = "validate_mdx" /\ pc = "tags" /\ pc' = "return")
              => /\ \A i \in 1..Len(unclosed) :
                       unclosed[i].kind = "Closing tag without matching opening tag"
                 /\ \A i, j \in 1..Len(unclosed) :
                       i < j => unclosed[i].line < unclosed[j].line
                 /\ unclosed' = unclosed \o
                       [i \in 1..Len(tag_stack) |->
                           [line |-> tag_stack[i].line, kind |-> "Unclosed tag",
                            arg |-> <<tag_stack[i].name>>]]
                 /\ \A i, j \in 1..Len(tag_stack) :
                       i < j => tag_stack[i].line < tag_stack[j].line
                 /\ \A i \in 1..Len(tag_stack) :
                       tag_stack[i].name \notin listed
                       => \E a, b \in 1..Len(errors') :
                             /\ errors'[a].kind = "Unknown component"
                             /\ errors'[a].line = tag_stack[i].line
                             /\ Head(errors'[a].arg) = tag_stack[i].name
                             /\ errors'[b] = [line |-> tag_stack[i].line,
                                              kind |-> "Unclosed tag",
                                              arg |-> <<tag_stack[i].name>>] ]_vars

\* C23 witness: <Foo> </Step> returned: Foo is unknown at its line 6, the
\* mismatched </Step> of line 7 is reported before the unclosed Foo of line 6.
C23_Witness ==
    /\ FullRun
    /\ file.body = <<OpenTag("Foo", <<>>), CloseTag("Step")>>
    /\ tag_stack = <<[name |-> "Foo", line |-> 6]>>
    /\ result.errors =
          <<[line |-> 6, kind |-> "Unknown component",
             arg |-> <<"Foo", "ParamField", "Step", "Steps", "CodeBlock", "Callout">>],
            [line |-> 7, kind |-> "Closing tag without matching opening tag",
             arg |-> <<"Step">>],
            [line |-> 6, kind |-> "Unclosed tag", arg |-> <<"Foo">>]>>

====
